---- MODULE Spec2Model ----
(***************************************************************************)
(* Tenant lifecycle and isolation subsystem of nectarDashboard2.0.         *)
(*                                                                         *)
(* Parent service: src/parent/client_site_service.py (orchestrator),       *)
(* src/parent/crud.py (registry helpers), src/parent/models.py (tables),   *)
(* src/parent/performance_monitor.py (tracker),                            *)
(* src/parent/cloudflare_service.py (DNS provider),                        *)
(* src/parent/client_site_middleware.py (data-access guard),               *)
(* src/parent/security_utils.py (rate limiter).                            *)
(* Child service: src/child/middleware.py (resolver), src/child/auth.py.   *)
(*                                                                         *)
(* Handlers are `async def` coroutines on one event loop: a handler runs   *)
(* without interruption up to its next real suspension point, which in the *)
(* orchestrator are the httpx calls of the Cloudflare service only.  The   *)
(* database calls and the certbot subprocess are synchronous.  One action  *)
(* of the model is one such uninterrupted segment.                         *)
(***************************************************************************)
EXTENDS Integers, Sequences, FiniteSets, TLC

-----------------------------------------------------------------------------
(* Bounds of the model *)

MaxIds == 2
MaxLog == 2
MaxEvents == 1
MaxCompleted == 2
MaxTrace == 6
MaxClock == 400
MaxSteps == 1
MaxMetrics == 2
MaxCalls == 3

\* MAX_REQUESTS_PER_WINDOW of the deployment explored
max_requests_per_window == 2

Tasks == {"t1", "t2"}
Subdomains == {"acme", "beta"}
\* a subdomain that SecurityUtils.validate_subdomain_format refuses
InvalidSubdomains == {"-bad"}
\* every subdomain a caller of the parent service can name
RequestedSubdomains == Subdomains \cup InvalidSubdomains
Names == {"Acme Corp"}
SettingsInputs == {"None", "plan_pro"}

NoId == "none"
\* no request is waiting for its answer
NoRequest == [method |-> "none"]
\* last_seen of a row that never received a heartbeat (NULL)
NoTime == -1
LIGHTSAIL_IP == "ip"
DnsContents == {"stale", LIGHTSAIL_IP}

-----------------------------------------------------------------------------
VARIABLES
    client_sites,            \* table client_sites: set of ClientSite rows
    provisioning_log,        \* table client_site_provisioning_log, insertion order
    client_site_events,      \* table client_site_events, insertion order
    next_uuid,               \* number of uuid4 values drawn so far
    schemas,                 \* PostgreSQL schemas client_site_<subdomain> that exist
    seeded_admins,           \* schemas whose users table holds admin_<subdomain>
    admin_users,             \* table admin_users: subdomains with an admin_<subdomain> row
    dns_records,             \* remote DNS zone: subdomain -> contents of its A records
    active_provisioning,     \* PerformanceMonitor.active_provisioning
    completed_provisioning,  \* PerformanceMonitor.completed_provisioning
    metrics,                 \* PerformanceMonitor.metrics
    tasks,                   \* orchestrator coroutines suspended at an await
    cloudflare_configured,   \* CloudflareDNSService.is_configured()
    cert_manager_configured, \* create_ssl_certificate_manager() is not None
    is_sqlite,               \* str(db.bind.url).startswith("sqlite")
    bypass_validation,       \* ClientSiteMiddleware.bypass_validation
    issued_tokens,           \* claims of the access tokens signed with SECRET_KEY so far
    ensure_trace,            \* remote calls and returns of direct ensure_dns_record calls
    clock,                   \* datetime.utcnow(), in seconds
    request,                 \* request received by a service and not yet answered
    request_tracker,         \* SecurityUtils.request_tracker
    accepted,                \* history: the calls that check_rate_limit answered True
    resp                     \* response of the last handler that returned

vars == <<client_sites, provisioning_log, client_site_events, next_uuid, schemas,
          seeded_admins, admin_users, dns_records, active_provisioning, completed_provisioning, metrics, tasks,
          cloudflare_configured, cert_manager_configured, is_sqlite,
          bypass_validation, issued_tokens, ensure_trace, clock, request, request_tracker,
          accepted, resp>>

envVars == <<cloudflare_configured, cert_manager_configured, is_sqlite, bypass_validation>>
extVars == <<schemas, seeded_admins, dns_records>>
trackerVars == <<active_provisioning, completed_provisioning, metrics>>
childVars == <<issued_tokens>>
traceVars == <<ensure_trace>>
timeVars == <<clock>>
requestVars == <<request>>
limiterVars == <<request_tracker, accepted>>

-----------------------------------------------------------------------------
(* Tables: src/parent/models.py *)

\* uuid.uuid4(): the n-th value drawn, never equal to an earlier one
Uuid(n) == ToString(n)

\* dict `settings or {}` of create_client_site; column default dict otherwise
SettingsOrEmpty(s) == IF s = "None" THEN "empty" ELSE s

\* str.title() of a subdomain (update_heartbeat names a lazily created site so)
Title(s) == IF s = "acme" THEN "Acme" ELSE IF s = "beta" THEN "Beta" ELSE s

\* a ClientSite row; status has column default 'active', is_active default False
ClientSite(id, subdomain, name, is_active, status, settings, last_seen) ==
    [id |-> id, subdomain |-> subdomain, name |-> name, is_active |-> is_active,
     status |-> status, settings |-> settings, last_seen |-> last_seen]

\* a ClientSiteProvisioningLog row
\* (key stands for the primary key of a row that a suspended coroutine still holds)
ClientSiteProvisioningLog(client_site_id, subdomain, action, status, meta) ==
    [client_site_id |-> client_site_id, subdomain |-> subdomain, action |-> action,
     status |-> status, extra_metadata |-> meta, key |-> "-", started_at |-> clock]

NoMeta == [dns_created |-> FALSE, ssl_certificate_issued |-> FALSE, admin_user_seeded |-> FALSE]

\* a ClientSiteEvent row
ClientSiteEvent(client_site_id, type) == [client_site_id |-> client_site_id, type |-> type]

\* db.query(ClientSite).filter(ClientSite.subdomain == subdomain)
BySubdomain(sites, s) == {r \in sites : r.subdomain = s}

\* db.query(ClientSite).filter(ClientSite.id == id)
ById(sites, id) == {r \in sites : r.id = id}

\* .first() of a query
First(rows) == CHOOSE r \in rows : TRUE

\* client_sites without unique=True on subdomain: only the primary key refuses
IntegrityError_pk_only(sites, row) ==
    \E r \in sites : r.id = row.id

\* INSERT into client_sites is refused by the primary key or by unique=True on subdomain
IntegrityError(sites, row) ==
    \E r \in sites : r.id = row.id \/ r.subdomain = row.subdomain

\* UPDATE of one row, found by primary key
UpdateRow(sites, old, new) == (sites \ {old}) \cup {new}

\* a delete that leaves the rows of the client site behind
DeleteWhere_rows_kept(seq, id) == seq

\* query(...).filter(client_site_id == id).delete() on a table kept in insertion order
RECURSIVE DeleteWhere(_, _)
DeleteWhere(seq, id) ==
    IF seq = <<>> THEN <<>>
    ELSE IF Head(seq).client_site_id = id THEN DeleteWhere(Tail(seq), id)
         ELSE <<Head(seq)>> \o DeleteWhere(Tail(seq), id)

-----------------------------------------------------------------------------
(* PerformanceMonitor: src/parent/performance_monitor.py *)

\* maxlen of the deque completed_provisioning
CompletedMaxLen == 1000

\* default of the constructor parameter max_metrics, used by the global instance
max_metrics == 10000

\* deque[-1]: the newest element
Newest(cp) == cp[Len(cp)]

\* a deque without maxlen
deque_append_unbounded(d, x, n) == Append(d, x)

\* deque(maxlen=n).append(x): a full deque drops its oldest element
deque_append(d, x, n) == IF Len(d) >= n THEN Append(Tail(d), x) ELSE Append(d, x)

\* ProvisioningMetric(client_site_id, start_time=datetime.now(), steps=[])
ProvisioningMetric(id) == [start_time |-> clock, steps |-> <<>>]

\* PerformanceMetric(metric_type, value, timestamp, client_site_id)
PerformanceMetric(metric_type, value, id) ==
    [metric_type |-> metric_type, value |-> value, timestamp |-> clock, client_site_id |-> id]

\* record_metric: self.metrics.append(metric)
record_metric(ms, metric) == deque_append(ms, metric, max_metrics)

\* a start that replaces the entry of an id already in flight
start_provisioning_replaces(ap, id) ==
    [k \in DOMAIN ap \cup {id} |-> IF k = id THEN ProvisioningMetric(id) ELSE ap[k]]

start_provisioning(ap, id) ==
    IF id \in DOMAIN ap THEN ap
    ELSE [k \in DOMAIN ap \cup {id} |-> IF k = id THEN ProvisioningMetric(id) ELSE ap[k]]

\* entries that share one steps list: a step lands in every entry in flight
record_provisioning_step_shared(ap, id, step_name, success) ==
    IF id \notin DOMAIN ap THEN ap
    ELSE [k \in DOMAIN ap |->
             [ap[k] EXCEPT !.steps = Append(@, [name |-> step_name, success |-> success])]]

record_provisioning_step(ap, id, step_name, success) ==
    IF id \notin DOMAIN ap THEN ap
    ELSE [ap EXCEPT ![id].steps = Append(@, [name |-> step_name, success |-> success])]

\* a completion that leaves the entry in the in-flight map
complete_provisioning_keeps_entry(ap, cp, id, success) ==
    IF id \notin DOMAIN ap THEN <<ap, cp, metrics>>
    ELSE <<ap,
           deque_append(cp, [client_site_id |-> id, start_time |-> ap[id].start_time,
                             end_time |-> clock,
                             duration_seconds |-> clock - ap[id].start_time,
                             success |-> success, steps |-> ap[id].steps],
                        CompletedMaxLen),
           metrics>>

\* <<active_provisioning, completed_provisioning, metrics>> after
\* complete_provisioning; the duration metric is recorded only when
\* duration_seconds is not zero
complete_provisioning(ap, cp, id, success) ==
    IF id \notin DOMAIN ap THEN <<ap, cp, metrics>>
    ELSE LET duration_seconds == clock - ap[id].start_time
             entry == [client_site_id |-> id, start_time |-> ap[id].start_time,
                       end_time |-> clock, duration_seconds |-> duration_seconds,
                       success |-> success, steps |-> ap[id].steps]
         IN  <<[k \in DOMAIN ap \ {id} |-> ap[k]],
               deque_append(cp, entry, CompletedMaxLen),
               IF duration_seconds # 0
               THEN record_metric(metrics, PerformanceMetric("provisioning_duration",
                                                            duration_seconds, id))
               ELSE metrics>>

-----------------------------------------------------------------------------
(* Responses and suspended coroutines *)

IdleTask == [pc |-> "idle", sub |-> NoId, name |-> NoId, settings |-> "empty",
             id |-> NoId, record |-> NoId]

Response(op, sub, code) ==
    [op |-> op, sub |-> sub, code |-> code, error |-> "none", status |-> NoId,
     is_active |-> FALSE, handler |-> FALSE, client_id |-> NoId, tenant |-> NoId,
     alive |-> FALSE, last_seen |-> NoTime, latest_action |-> NoId, latest_status |-> NoId,
     result |-> FALSE]

\* the TenantProvisioningResponse envelope built from a ClientSite row
Envelope(op, row) ==
    [Response(op, row.subdomain, 200) EXCEPT !.client_id = row.id, !.status = row.status,
                                             !.is_active = row.is_active]

\* an exception that reached the endpoint
Failure(op, sub, code, error) == [Response(op, sub, code) EXCEPT !.error = error]

TypeOK ==
    /\ next_uuid \in 0..MaxIds
    /\ schemas \subseteq RequestedSubdomains
    /\ dns_records \in [RequestedSubdomains -> SUBSET DnsContents]
    /\ seeded_admins \subseteq RequestedSubdomains
    /\ admin_users \subseteq Subdomains
    /\ cloudflare_configured \in BOOLEAN
    /\ cert_manager_configured \in BOOLEAN
    /\ is_sqlite \in BOOLEAN
    /\ bypass_validation \in BOOLEAN
    /\ issued_tokens \subseteq [sub : {"user"}, client_id : Subdomains \cup {NoId, "-bad", "example", "localhost"}]
    /\ Len(ensure_trace) <= MaxTrace
    /\ clock \in 0..MaxClock
    /\ request.method \in {"none", "GET", "OPTIONS", "POST"}

Init ==
    /\ client_sites = {}
    /\ provisioning_log = <<>>
    /\ client_site_events = <<>>
    /\ next_uuid = 0
    /\ schemas = {}
    /\ dns_records \in [RequestedSubdomains -> {{}, {"stale"}}]
    /\ \A s \in InvalidSubdomains : dns_records[s] = {}
    /\ active_provisioning = [k \in {} |-> <<>>]
    /\ completed_provisioning = <<>>
    /\ metrics = <<>>
    /\ tasks = [t \in Tasks |-> IdleTask]
    /\ seeded_admins = {}
    /\ admin_users = {}
    /\ cloudflare_configured \in BOOLEAN
    /\ cert_manager_configured \in BOOLEAN
    /\ is_sqlite \in BOOLEAN
    /\ bypass_validation \in BOOLEAN
    /\ issued_tokens = {}
    /\ ensure_trace = <<>>
    /\ clock = 0
    /\ request = NoRequest
    /\ request_tracker = [k \in {} |-> NoId]
    /\ accepted = <<>>
    /\ resp = Response("none", NoId, 0)

-----------------------------------------------------------------------------
(* Registry helpers: src/parent/crud.py *)

\* log_event(db, client_site_id, type, message)
log_event(events, client_site_id, type) == Append(events, ClientSiteEvent(client_site_id, type))

\* a clock that runs at half speed
utcnow_slow == clock \div 2

\* datetime.utcnow()
utcnow == clock

\* PUT /client-sites/{subdomain}/heartbeat -> crud.update_heartbeat
update_heartbeat(s) ==
    /\ Len(client_site_events) < MaxEvents
    /\ LET found == BySubdomain(client_sites, s) IN
       IF found = {}
       THEN /\ next_uuid < MaxIds
            /\ LET row == ClientSite(Uuid(next_uuid + 1), s, Title(s), FALSE, "active",
                                     "empty", utcnow)
               IN  /\ client_sites' = client_sites \cup {row}
                   /\ client_site_events' = log_event(client_site_events, row.id, "heartbeat")
                   /\ resp' = [Response("heartbeat", s, 200) EXCEPT !.client_id = row.id,
                                                                   !.last_seen = row.last_seen]
            /\ next_uuid' = next_uuid + 1
       ELSE LET old == First(found)
                row == [old EXCEPT !.last_seen = utcnow]
            IN  /\ client_sites' = UpdateRow(client_sites, old, row)
                /\ client_site_events' = log_event(client_site_events, row.id, "heartbeat")
                /\ resp' = [Response("heartbeat", s, 200) EXCEPT !.client_id = row.id,
                                                                   !.last_seen = row.last_seen]
                /\ UNCHANGED next_uuid
    /\ UNCHANGED <<provisioning_log, admin_users, extVars, trackerVars, tasks, envVars, childVars, traceVars, timeVars, limiterVars, requestVars>>

\* time passes between two requests
tick(d) ==
    /\ clock + d <= MaxClock
    /\ clock' = clock + d
    /\ UNCHANGED <<client_sites, provisioning_log, client_site_events, next_uuid, admin_users,
                   extVars, trackerVars, tasks, resp, envVars, childVars, traceVars,
                   requestVars, limiterVars>>

\* is_alive of crud.get_client_site_status: False without last_seen, otherwise
\* (utcnow() - last_seen).total_seconds() < 300
is_alive(last_seen, now) == last_seen # NoTime /\ now - last_seen < 300

\* crud.get_client_site_status(db, subdomain): None for an unknown subdomain
crud_get_client_site_status(sites, s, now) ==
    IF BySubdomain(sites, s) = {} THEN Response("alive", s, 200)
    ELSE LET row == First(BySubdomain(sites, s)) IN
         [Response("alive", s, 200) EXCEPT !.alive = is_alive(row.last_seen, now),
                                           !.last_seen = row.last_seen]

\* GET /client-sites/{subdomain}/status -> get_tenant_status_endpoint: the
\* handler calls get_tenant_status, a name that main.py neither defines nor
\* imports (crud.get_client_site_status is imported under its own name), so
\* the call raises NameError and the request ends with 500
get_tenant_status_endpoint(s) ==
    /\ resp' = Failure("alive", s, 500, "name_error")
    /\ UNCHANGED <<client_sites, provisioning_log, client_site_events, next_uuid, admin_users,
                   extVars, trackerVars, tasks, envVars, childVars, traceVars, timeVars, limiterVars, requestVars>>

\* POST /client-sites/{id}/activate -> crud.activate_client_site
\* POST /client-sites/{id}/deactivate -> crud.deactivate_client_site
set_active_by_id(id, flag) ==
    /\ LET found == ById(client_sites, id)
           op == IF flag THEN "crud_activate" ELSE "crud_deactivate" IN
       IF found = {}
       THEN /\ resp' = Response(op, id, 404)
            /\ UNCHANGED <<client_sites, client_site_events>>
       ELSE /\ Len(client_site_events) < MaxEvents
            /\ client_sites' = UpdateRow(client_sites, First(found),
                                         [First(found) EXCEPT !.is_active = flag])
            /\ client_site_events' = log_event(client_site_events, id,
                                         IF flag THEN "activation" ELSE "deactivation")
            /\ resp' = Response(op, id, 200)
    /\ UNCHANGED <<provisioning_log, next_uuid, admin_users, extVars, trackerVars, tasks, envVars, childVars, traceVars, timeVars, limiterVars, requestVars>>

\* a deactivation by id that suspends the record as well
deactivate_client_site_by_id_suspending(id) ==
    /\ ById(client_sites, id) # {}
    /\ client_sites' = UpdateRow(client_sites, First(ById(client_sites, id)),
                            [First(ById(client_sites, id)) EXCEPT
                                !.is_active = FALSE, !.status = "suspended"])
    /\ resp' = Response("crud_deactivate", id, 200)
    /\ UNCHANGED <<client_site_events, provisioning_log, next_uuid, admin_users, extVars,
                   trackerVars, tasks, envVars, childVars, traceVars, timeVars, limiterVars, requestVars>>

activate_client_site_by_id(id) == set_active_by_id(id, TRUE)
deactivate_client_site_by_id(id) == set_active_by_id(id, FALSE)

\* POST /client-sites -> main.create_new_client_site -> crud.create_client_site
create_new_client_site(s, name) ==
    /\ IF BySubdomain(client_sites, s) # {}
       THEN /\ resp' = Response("register", s, 400)
            /\ UNCHANGED <<client_sites, next_uuid, admin_users>>
       ELSE /\ next_uuid < MaxIds
            /\ LET row == ClientSite(Uuid(next_uuid + 1), s, name, FALSE, "active",
                                     "empty", NoTime)
               IN  /\ client_sites' = client_sites \cup {row}
                   /\ resp' = [Response("register", s, 200) EXCEPT !.client_id = row.id]
            /\ next_uuid' = next_uuid + 1
            \* create_admin_user_for_client_site: unique username, failure is swallowed
            /\ admin_users' = admin_users \cup {s}
    /\ UNCHANGED <<provisioning_log, client_site_events, extVars, trackerVars, tasks, envVars, childVars, traceVars, timeVars, limiterVars, requestVars>>

-----------------------------------------------------------------------------
(* Data-access guard of the parent service: src/parent/client_site_middleware.py *)

\* Python None where a string is expected
None == "None"

\* what getattr(request.state, 'client_site', None) answers: None, or the JSON
\* object of the parent's answer as a dictionary, with or without the keys
\* id, subdomain and status
NoContext == [is_none |-> TRUE, items |-> [k \in {} |-> ""]]
ClientSiteData ==
    UNION {[D -> {"", "acme", "beta", "active"} \cup {Uuid(n) : n \in 1..MaxIds}] :
              D \in SUBSET {"id", "subdomain", "status"}}
ClientSiteContexts ==
    {[is_none |-> FALSE, items |-> d] : d \in
        {c \in ClientSiteData :
            /\ "id" \in DOMAIN c => c["id"] \in {""} \cup {Uuid(n) : n \in 1..MaxIds}
            /\ "subdomain" \in DOMAIN c => c["subdomain"] \in Subdomains
            /\ "status" \in DOMAIN c => c["status"] = "active"}}

\* dict.get(key): None for a missing key
Get(d, key) == IF key \in DOMAIN d.items THEN d.items[key] ELSE None

\* truth value of a string or None, and of a dictionary or None
Truthy(x) == x \notin {None, ""}
TruthyDict(d) == ~d.is_none /\ DOMAIN d.items # {}

\* the decision of validate_data_access with the bypass off
data_access_allowed(client_site_context, client_site_id) ==
    IF ~TruthyDict(client_site_context) THEN FALSE
    ELSE LET current_client_site_id == Get(client_site_context, "id") IN
         IF Truthy(current_client_site_id) /\ current_client_site_id # client_site_id
         THEN FALSE
         ELSE TRUE

\* a request reaches the parent service; request.state.client_site is not set
\* (None) or holds the data that validate_client_site stored
receive_with_state(client_site) ==
    /\ request' = [method |-> "GET", state |-> [client_site |-> client_site]]
    /\ UNCHANGED <<client_sites, provisioning_log, client_site_events, next_uuid, admin_users,
                   extVars, trackerVars, tasks, resp, envVars, childVars, traceVars, timeVars, limiterVars>>

\* ClientSiteMiddleware.validate_data_access(request, client_site_id)
validate_data_access(client_site_id) ==
    /\ request # NoRequest
    /\ resp' = [Response("validate_data_access", client_site_id, 0) EXCEPT !.result =
                    IF bypass_validation THEN TRUE
                    ELSE data_access_allowed(request.state.client_site, client_site_id)]
    /\ UNCHANGED <<client_sites, provisioning_log, client_site_events, next_uuid, admin_users,
                   extVars, trackerVars, tasks, envVars, childVars, traceVars, timeVars, limiterVars,
                   requestVars>>

-----------------------------------------------------------------------------
(* Rate limiter of the parent service: src/parent/security_utils.py *)

\* RATE_LIMIT_WINDOW, in seconds
rate_limit_window == 60

\* f"{client_ip}:{tenant_id}"
TrackerKey(client_ip, tenant_id) == <<client_ip, ":", tenant_id>>

\* the dictionary comprehension that drops the entries of an earlier window
recent_entries(tracker, cutoff) ==
    [k \in {k \in DOMAIN tracker : tracker[k].timestamp > cutoff} |-> tracker[k]]

\* recent_requests: the entries of the pair inside the window
recent_requests(tracker, client_ip, tenant_id, cutoff) ==
    {k \in DOMAIN tracker : /\ tracker[k].client_ip = client_ip
                             /\ tracker[k].tenant_id = tenant_id
                             /\ tracker[k].timestamp > cutoff}

\* self.request_tracker[key] = {...}: one entry per key
record_request(tracker, client_ip, tenant_id, now) ==
    [k \in DOMAIN tracker \cup {TrackerKey(client_ip, tenant_id)} |->
        IF k = TrackerKey(client_ip, tenant_id)
        THEN [client_ip |-> client_ip, tenant_id |-> tenant_id, timestamp |-> now]
        ELSE tracker[k]]

\* SecurityUtils.check_rate_limit(client_ip, tenant_id)
check_rate_limit(client_ip, tenant_id) ==
    /\ Len(accepted) < MaxCalls
    /\ LET now == utcnow
           cutoff == now - rate_limit_window
           cleaned == recent_entries(request_tracker, cutoff)
           allowed == Cardinality(recent_requests(cleaned, client_ip, tenant_id, cutoff))
                          < max_requests_per_window
       IN  /\ request_tracker' = IF allowed
                                 THEN record_request(cleaned, client_ip, tenant_id, now)
                                 ELSE cleaned
           /\ accepted' = IF allowed
                          THEN Append(accepted, [client_ip |-> client_ip,
                                                 tenant_id |-> tenant_id, timestamp |-> now])
                          ELSE accepted
           /\ resp' = [Response("check_rate_limit", tenant_id, 0) EXCEPT !.result = allowed]
    /\ UNCHANGED <<client_sites, provisioning_log, client_site_events, next_uuid, admin_users,
                   extVars, trackerVars, tasks, envVars, childVars, traceVars, timeVars,
                   requestVars>>

-----------------------------------------------------------------------------
(* Orchestrator: src/parent/client_site_service.py *)

CreatePcs == {"c_dns_get", "c_dns_update", "c_dns_create"}
DeletePcs == {"d_dns_get", "d_dns_delete"}

\* create coroutines that passed the existence check and have not returned
InFlightCreates == {t \in Tasks : tasks[t].pc \in CreatePcs}
InFlightDeletes == {t \in Tasks : tasks[t].pc \in DeletePcs}

\* room left in the bounded tables for one more lifecycle action
LogRoom == Len(provisioning_log) + Cardinality(InFlightCreates) < MaxLog
CompletedRoom(s) ==
    Len(completed_provisioning) + Cardinality(DOMAIN active_provisioning \cup {s}) <= MaxCompleted

\* the existence check of create_client_site skipped
existing_client_site_unchecked(sites, s) == {}

\* existing_client_site = db.query(ClientSite).filter(subdomain == subdomain).first()
existing_client_site(sites, s) == BySubdomain(sites, s)

\* an except branch that keeps a row flushed before the failing step
create_failed_row_kept(t, s, ap, error) ==
    /\ LET done == complete_provisioning(ap, completed_provisioning, s, FALSE) IN
       /\ active_provisioning' = done[1]
       /\ completed_provisioning' = done[2]
       /\ metrics' = done[3]
    /\ resp' = Failure("create", s, 500, error)
    /\ tasks' = [tasks EXCEPT ![t] = IdleTask]
    /\ client_sites' = client_sites \cup
           {ClientSite(Uuid(next_uuid + 1), s, s, TRUE, "active", "empty", NoTime)}
    /\ UNCHANGED provisioning_log

\* the except branch of create_client_site: rollback, the error log row has no
\* client_site_id (nullable=False) so its commit fails and is swallowed, tracking
\* is completed with success=False, the exception reaches the endpoint (500)
create_failed(t, s, ap, error) ==
    /\ LET done == complete_provisioning(ap, completed_provisioning, s, FALSE) IN
       /\ active_provisioning' = done[1]
       /\ completed_provisioning' = done[2]
       /\ metrics' = done[3]
    /\ resp' = Failure("create", s, 500, error)
    /\ tasks' = [tasks EXCEPT ![t] = IdleTask]
    /\ UNCHANGED <<client_sites, provisioning_log>>

\* the certificate flag set whenever issuance was attempted
ssl_result_success_attempted(ssl) == cert_manager_configured

\* ssl_result.get("success") if ssl_result else False: ssl_result is None when
\* no certificate manager is configured and success is False when
\* issue_certificate reported a failure or raised
ssl_result_success(ssl) == cert_manager_configured /\ ssl = "issued"

\* SecurityUtils.validate_subdomain_format: ^[a-z0-9]([a-z0-9-]{0,61}[a-z0-9])?$,
\* at most 63 characters, no leading, trailing or double hyphen; no handler
\* of the parent service calls it
security_validate_subdomain_format(subdomain) == subdomain \notin InvalidSubdomains

\* the schema is created as "client_site_<subdomain>" in quotes and named
\* without quotes by the seed statement: the two agree when the subdomain holds
\* only lowercase letters, digits and underscores
unquoted_schema_name(s) == s \in Subdomains

\* a seed INSERT without its ON CONFLICT clause: refused when the row exists
seed_on_conflict_raises(admins, s) == s \in admins

\* INSERT ... ON CONFLICT (username) DO NOTHING is never refused for a row that
\* exists already
seed_on_conflict(admins, s) == FALSE

\* _seed_admin_user on PostgreSQL: the INSERT names client_site_<subdomain>.users;
\* it raises when the statement is refused or the schema is gone, the except
\* branch swallows the error without a rollback, and the session's transaction
\* stays aborted, so the next statement of the session raises as well
seed_aborts(s, seed, has_schema) ==
    ~is_sqlite /\ (\/ seed = "aborted" \/ ~has_schema \/ ~unquoted_schema_name(s)
                    \/ seed_on_conflict(seeded_admins, s))

\* steps 3 to 6 of create_client_site, from the certificate to the commit;
\* ssl is the outcome of issue_certificate (issued, failed, raised) and seed
\* the outcome of _seed_admin_user (seeded, raised before any statement,
\* aborted by a failed statement)
create_tail(t, s, name, settings, id, has_schema, dns_created, ap0, ssl, seed) ==
    LET ap1 == IF cert_manager_configured
               THEN record_provisioning_step(
                        record_provisioning_step(ap0, s, "ssl_certificate_issuance", TRUE),
                        s, "ssl_certificate_issuance", ssl = "issued")
               ELSE record_provisioning_step(ap0, s, "ssl_certificate_issuance", TRUE)
        ap2 == record_provisioning_step(
                   record_provisioning_step(ap1, s, "admin_user_seeding", TRUE),
                   s, "admin_user_seeding", TRUE)
        row == ClientSite(id, s, name, TRUE, "active", SettingsOrEmpty(settings), NoTime)
        meta == [dns_created |-> dns_created,
                 ssl_certificate_issued |-> ssl_result_success(ssl),
                 admin_user_seeded |-> TRUE]
    IN  /\ seeded_admins' = IF ~is_sqlite /\ seed = "seeded" /\ ~seed_aborts(s, seed, has_schema)
                            THEN seeded_admins \cup {s} ELSE seeded_admins
        /\ IF seed_aborts(s, seed, has_schema)
           THEN create_failed(t, s, ap2, "transaction")
           ELSE IF IntegrityError(client_sites, row)
           THEN create_failed(t, s, ap2, "integrity")
           ELSE /\ client_sites' = client_sites \cup {row}
                /\ provisioning_log' = Append(provisioning_log,
                       ClientSiteProvisioningLog(id, s, "create", "completed", meta))
                /\ LET done == complete_provisioning(ap2, completed_provisioning, s, TRUE) IN
                   /\ active_provisioning' = done[1]
                   /\ completed_provisioning' = done[2]
                   /\ metrics' = done[3]
                /\ resp' = Envelope("create", row)
                /\ tasks' = [tasks EXCEPT ![t] = IdleTask]

\* POST /client-sites/provision -> create_client_site, up to the first await
create_client_site(t, s, name, settings, schema_ok, ssl, seed) ==
    /\ tasks[t].pc = "idle"
    /\ next_uuid < MaxIds
    /\ LogRoom
    /\ CompletedRoom(s)
    /\ LET ap0 == start_provisioning(active_provisioning, s) IN
       IF existing_client_site(client_sites, s) # {}
       THEN /\ LET done == complete_provisioning(ap0, completed_provisioning, s, FALSE) IN
               /\ active_provisioning' = done[1]
               /\ completed_provisioning' = done[2]
               /\ metrics' = done[3]
            /\ resp' = Failure("create", s, 400, "exists")
            /\ UNCHANGED <<client_sites, provisioning_log, next_uuid, extVars, tasks>>
       ELSE LET ap1 == record_provisioning_step(ap0, s, "database_schema_creation", TRUE) IN
            IF ~is_sqlite /\ ~schema_ok
            THEN /\ create_failed(t, s, ap1, "schema")
                 /\ UNCHANGED <<next_uuid, extVars>>
            ELSE LET id == Uuid(next_uuid + 1)
                     ap2 == record_provisioning_step(ap1, s, "database_schema_creation", TRUE)
                 IN  /\ next_uuid' = next_uuid + 1
                     /\ schemas' = IF is_sqlite THEN schemas ELSE schemas \cup {s}
                     /\ UNCHANGED dns_records
                     /\ IF cloudflare_configured
                        THEN /\ active_provisioning' =
                                    record_provisioning_step(ap2, s, "dns_record_creation", TRUE)
                             /\ tasks' = [tasks EXCEPT ![t] =
                                    [pc |-> "c_dns_get", sub |-> s, name |-> name,
                                     settings |-> settings, id |-> id, record |-> NoId]]
                             /\ UNCHANGED <<client_sites, provisioning_log,
                                            completed_provisioning, metrics, seeded_admins,
                                            resp>>
                        ELSE create_tail(t, s, name, settings, id, TRUE, FALSE,
                                 record_provisioning_step(ap2, s, "dns_record_creation", TRUE),
                                 ssl, seed)
    /\ UNCHANGED <<client_site_events, admin_users, envVars, childVars, traceVars, timeVars, limiterVars, requestVars>>

\* POST /client-sites/provision while the database cannot be reached: tracking
\* is started, the existence query raises outside the try block, and the
\* endpoint turns the exception into 500
create_client_site_query_fails(t, s) ==
    /\ tasks[t].pc = "idle"
    /\ CompletedRoom(s)
    /\ active_provisioning' = start_provisioning(active_provisioning, s)
    /\ resp' = Failure("create", s, 500, "query")
    /\ UNCHANGED <<client_sites, provisioning_log, client_site_events, next_uuid, admin_users,
                   extVars, completed_provisioning, metrics, tasks, envVars, childVars,
                   traceVars, timeVars, limiterVars, requestVars>>

\* the coroutine resumes after ensure_dns_record returned dns_result
create_after_dns(t, dns_created, ssl, seed) ==
    create_tail(t, tasks[t].sub, tasks[t].name, tasks[t].settings, tasks[t].id,
        tasks[t].sub \in schemas, dns_created,
        record_provisioning_step(active_provisioning, tasks[t].sub, "dns_record_creation",
                                 dns_created),
        ssl, seed)

\* ensure_dns_record resumes with the answer of get_dns_record: api_ok is false
\* when the call failed (None), content is result[0] of the list otherwise
create_dns_get(t, api_ok, content, ssl, seed) ==
    /\ tasks[t].pc = "c_dns_get"
    /\ content \in dns_records[tasks[t].sub] \cup {NoId}
    /\ content = NoId <=> (~api_ok \/ dns_records[tasks[t].sub] = {})
    /\ IF content = NoId
       THEN \* no existing record: await create_dns_record
            /\ tasks' = [tasks EXCEPT ![t].pc = "c_dns_create"]
            /\ UNCHANGED <<client_sites, provisioning_log, trackerVars, seeded_admins, resp>>
       ELSE IF content # LIGHTSAIL_IP
       THEN \* drift: await update_dns_record(existing_record["id"], ...)
            /\ tasks' = [tasks EXCEPT ![t].pc = "c_dns_update", ![t].record = content]
            /\ UNCHANGED <<client_sites, provisioning_log, trackerVars, seeded_admins, resp>>
       ELSE create_after_dns(t, TRUE, ssl, seed)
    /\ UNCHANGED <<client_site_events, next_uuid, schemas, dns_records, admin_users, envVars, childVars, traceVars, timeVars, limiterVars, requestVars>>

\* ensure_dns_record resumes with the answer of update_dns_record; the zone
\* refuses to turn a record into a copy of another one
create_dns_update(t, api_ok, ssl, seed) ==
    /\ tasks[t].pc = "c_dns_update"
    /\ api_ok => /\ tasks[t].record \in dns_records[tasks[t].sub]
                 /\ LIGHTSAIL_IP \notin dns_records[tasks[t].sub]
    /\ dns_records' = IF api_ok
                      THEN [dns_records EXCEPT ![tasks[t].sub] =
                                (@ \ {tasks[t].record}) \cup {LIGHTSAIL_IP}]
                      ELSE dns_records
    /\ create_after_dns(t, api_ok, ssl, seed)
    /\ UNCHANGED <<client_site_events, next_uuid, schemas, admin_users, envVars, childVars, traceVars, timeVars, limiterVars, requestVars>>

\* ensure_dns_record resumes with the answer of create_dns_record; the zone
\* refuses a record identical to an existing one
create_dns_create(t, api_ok, ssl, seed) ==
    /\ tasks[t].pc = "c_dns_create"
    /\ api_ok => LIGHTSAIL_IP \notin dns_records[tasks[t].sub]
    /\ dns_records' = IF api_ok
                      THEN [dns_records EXCEPT ![tasks[t].sub] = @ \cup {LIGHTSAIL_IP}]
                      ELSE dns_records
    /\ create_after_dns(t, api_ok, ssl, seed)
    /\ UNCHANGED <<client_site_events, next_uuid, schemas, admin_users, envVars, childVars, traceVars, timeVars, limiterVars, requestVars>>

\* the server process is stopped while create_client_site waits for the DNS
\* service: the remote call it waits for may have been applied (dns_applied),
\* nothing after the await runs, and the coroutines and the in-memory tracking
\* are gone when the service is started again
interrupt_create(t, dns_applied) ==
    /\ tasks[t].pc \in CreatePcs
    /\ LET s == tasks[t].sub
           zone == dns_records[s]
       IN  dns_records' =
               IF dns_applied /\ tasks[t].pc = "c_dns_create" /\ LIGHTSAIL_IP \notin zone
               THEN [dns_records EXCEPT ![s] = @ \cup {LIGHTSAIL_IP}]
               ELSE IF /\ dns_applied /\ tasks[t].pc = "c_dns_update"
                       /\ tasks[t].record \in zone /\ LIGHTSAIL_IP \notin zone
               THEN [dns_records EXCEPT ![s] = (@ \ {tasks[t].record}) \cup {LIGHTSAIL_IP}]
               ELSE dns_records
    /\ tasks' = [u \in Tasks |-> IdleTask]
    /\ active_provisioning' = [k \in {} |-> <<>>]
    /\ completed_provisioning' = <<>>
    /\ metrics' = <<>>
    /\ UNCHANGED <<client_sites, provisioning_log, client_site_events, next_uuid, schemas,
                   seeded_admins, admin_users, resp, envVars, childVars, traceVars, timeVars, limiterVars,
                   requestVars>>

\* the server process is stopped inside the synchronous part of
\* create_client_site, after the commit of the schema step or, when seeded
\* holds, after the commit of _seed_admin_user, and before the record is added
interrupt_create_before_record(t, s, seeded) ==
    /\ tasks[t].pc = "idle"
    /\ next_uuid < MaxIds
    /\ existing_client_site(client_sites, s) = {}
    /\ seeded => ~cloudflare_configured
    /\ next_uuid' = next_uuid + 1
    /\ schemas' = IF is_sqlite THEN schemas ELSE schemas \cup {s}
    /\ seeded_admins' = IF seeded /\ ~is_sqlite /\ ~seed_aborts(s, "seeded", TRUE)
                        THEN seeded_admins \cup {s} ELSE seeded_admins
    /\ tasks' = [u \in Tasks |-> IdleTask]
    /\ active_provisioning' = [k \in {} |-> <<>>]
    /\ completed_provisioning' = <<>>
    /\ metrics' = <<>>
    /\ UNCHANGED <<client_sites, provisioning_log, client_site_events, dns_records,
                   admin_users, resp, envVars, childVars, traceVars, timeVars, limiterVars, requestVars>>

\* the process is stopped after ensure_dns_record returned and
\* _seed_admin_user committed, before the record is added
interrupt_create_after_seed(t) ==
    /\ tasks[t].pc \in CreatePcs
    /\ LIGHTSAIL_IP \in dns_records[tasks[t].sub]
    /\ seeded_admins' = IF ~is_sqlite /\ ~seed_aborts(tasks[t].sub, "seeded", tasks[t].sub \in schemas)
                        THEN seeded_admins \cup {tasks[t].sub} ELSE seeded_admins
    /\ tasks' = [u \in Tasks |-> IdleTask]
    /\ active_provisioning' = [k \in {} |-> <<>>]
    /\ completed_provisioning' = <<>>
    /\ metrics' = <<>>
    /\ UNCHANGED <<client_sites, provisioning_log, client_site_events, next_uuid, schemas,
                   dns_records, admin_users, resp, envVars, childVars, traceVars, timeVars, limiterVars,
                   requestVars>>

\* ensure_dns_record called on its own, as a retry of the DNS step does; every
\* remote call and the value returned are appended to ensure_trace
DnsEvent(op, sub, ok, content) == [op |-> op, sub |-> sub, ok |-> ok, content |-> content]
Returned(sub, content) == DnsEvent("return", sub, content # NoId, content)

\* the update branch taken whatever the record holds
content_differs_always(content, ip_address) == TRUE

\* the update branch never taken
content_differs_never(content, ip_address) == FALSE

\* existing_record["content"] != ip_address
content_differs(content, ip_address) == content # ip_address

\* ensure_dns_record(subdomain, LIGHTSAIL_IP) up to the await of get_dns_record
ensure_dns_record(t, s) ==
    /\ tasks[t].pc = "idle"
    /\ Len(ensure_trace) + 3 <= MaxTrace
    /\ IF ~cloudflare_configured
       THEN /\ ensure_trace' = Append(ensure_trace, Returned(s, NoId))
            /\ UNCHANGED tasks
       ELSE /\ tasks' = [tasks EXCEPT ![t] = [IdleTask EXCEPT !.pc = "e_dns_get", !.sub = s]]
            /\ UNCHANGED ensure_trace
    /\ UNCHANGED <<client_sites, provisioning_log, client_site_events, next_uuid, admin_users,
                   extVars, trackerVars, resp, envVars, childVars, timeVars, limiterVars, requestVars>>

\* the call resumes with the answer of get_dns_record
ensure_dns_get(t, api_ok, content) ==
    LET s == tasks[t].sub
        got == Append(ensure_trace, DnsEvent("get", s, api_ok, content))
    IN  /\ tasks[t].pc = "e_dns_get"
        /\ content \in dns_records[s] \cup {NoId}
        /\ content = NoId <=> (~api_ok \/ dns_records[s] = {})
        /\ IF content = NoId
           THEN /\ tasks' = [tasks EXCEPT ![t].pc = "e_dns_create"]
                /\ ensure_trace' = got
           ELSE IF content_differs(content, LIGHTSAIL_IP)
           THEN /\ tasks' = [tasks EXCEPT ![t].pc = "e_dns_update", ![t].record = content]
                /\ ensure_trace' = got
           ELSE /\ tasks' = [tasks EXCEPT ![t] = IdleTask]
                /\ ensure_trace' = Append(got, Returned(s, content))
        /\ UNCHANGED <<client_sites, provisioning_log, client_site_events, next_uuid,
                       admin_users, extVars, trackerVars, resp, envVars, childVars, timeVars, limiterVars, requestVars>>

\* the call resumes with the answer of update_dns_record and returns
ensure_dns_update(t, api_ok) ==
    LET s == tasks[t].sub IN
    /\ tasks[t].pc = "e_dns_update"
    /\ api_ok => /\ tasks[t].record \in dns_records[s]
                 /\ tasks[t].record = LIGHTSAIL_IP \/ LIGHTSAIL_IP \notin dns_records[s]
    /\ dns_records' = IF api_ok
                      THEN [dns_records EXCEPT ![s] = (@ \ {tasks[t].record}) \cup {LIGHTSAIL_IP}]
                      ELSE dns_records
    /\ ensure_trace' = Append(Append(ensure_trace, DnsEvent("update", s, api_ok, tasks[t].record)),
                              Returned(s, IF api_ok THEN LIGHTSAIL_IP ELSE NoId))
    /\ tasks' = [tasks EXCEPT ![t] = IdleTask]
    /\ UNCHANGED <<client_sites, provisioning_log, client_site_events, next_uuid, admin_users,
                   schemas, seeded_admins, trackerVars, resp, envVars, childVars, timeVars, limiterVars, requestVars>>

\* the call resumes with the answer of create_dns_record and returns
ensure_dns_create(t, api_ok) ==
    LET s == tasks[t].sub IN
    /\ tasks[t].pc = "e_dns_create"
    /\ api_ok => LIGHTSAIL_IP \notin dns_records[s]
    /\ dns_records' = IF api_ok
                      THEN [dns_records EXCEPT ![s] = @ \cup {LIGHTSAIL_IP}]
                      ELSE dns_records
    /\ ensure_trace' = Append(Append(ensure_trace, DnsEvent("create", s, api_ok, LIGHTSAIL_IP)),
                              Returned(s, IF api_ok THEN LIGHTSAIL_IP ELSE NoId))
    /\ tasks' = [tasks EXCEPT ![t] = IdleTask]
    /\ UNCHANGED <<client_sites, provisioning_log, client_site_events, next_uuid, admin_users,
                   schemas, seeded_admins, trackerVars, resp, envVars, childVars, timeVars, limiterVars, requestVars>>

\* log_entry.status = "failed" of the row the coroutine t inserted
RECURSIVE MarkFailed(_, _)
MarkFailed(log, t) ==
    IF log = <<>> THEN <<>>
    ELSE (IF Head(log).key = t
          THEN <<[Head(log) EXCEPT !.status = "failed", !.key = "-"]>>
          ELSE <<Head(log)>>) \o MarkFailed(Tail(log), t)

\* a schema drop whose error is swallowed like the errors of the cleanup steps
schema_drop_swallowed(drop_ok) == FALSE

\* a delete that gives up before the schema drop, whatever the drop would answer
schema_drop_unreached(drop_ok) == TRUE

\* _delete_client_site_schema: skipped on SQLite, otherwise the error of
\* SELECT drop_client_site_schema(:subdomain) is logged and raised again
schema_drop_raises(drop_ok) == ~is_sqlite /\ ~drop_ok

\* steps 2 to 5 of delete_client_site; revoke_certificate changes nothing here
\* (SSLCertificateManager has no such method, the AttributeError is caught)
delete_tail(t, s, id, log0, drop_ok, applied) ==
    /\ IF schema_drop_raises(drop_ok)
       THEN \* except branch: the update of the log row is committed or fails too
            /\ provisioning_log' = IF applied THEN MarkFailed(log0, t) ELSE log0
            /\ resp' = Failure("delete", s, 500, "schema")
            /\ UNCHANGED <<client_sites, client_site_events, schemas, seeded_admins>>
       ELSE /\ schemas' = IF is_sqlite THEN schemas ELSE schemas \ {s}
            /\ seeded_admins' = IF is_sqlite THEN seeded_admins ELSE seeded_admins \ {s}
            /\ client_site_events' = DeleteWhere(client_site_events, id)
            /\ provisioning_log' = DeleteWhere(log0, id)
            /\ client_sites' = client_sites \ ById(client_sites, id)
            /\ resp' = [Response("delete", s, 200) EXCEPT !.status = "deleted"]
    /\ tasks' = [tasks EXCEPT ![t] = IdleTask]

\* DELETE /client-sites/{subdomain} -> delete_client_site, up to the first await
delete_client_site(t, s, drop_ok, applied) ==
    /\ tasks[t].pc = "idle"
    /\ LET found == BySubdomain(client_sites, s) IN
       IF found = {}
       THEN /\ resp' = Failure("delete", s, 404, "not_found")
            /\ UNCHANGED <<client_sites, provisioning_log, client_site_events, extVars, tasks>>
       ELSE LET id == First(found).id
                log0 == Append(provisioning_log,
                            [ClientSiteProvisioningLog(id, s, "delete", "pending", NoMeta)
                                EXCEPT !.key = t])
            IN  /\ LogRoom
                /\ IF cloudflare_configured
                   THEN /\ provisioning_log' = log0
                        /\ tasks' = [tasks EXCEPT ![t] =
                               [IdleTask EXCEPT !.pc = "d_dns_get", !.sub = s, !.id = id]]
                        /\ UNCHANGED <<client_sites, client_site_events, extVars, resp>>
                   ELSE /\ delete_tail(t, s, id, log0, drop_ok, applied)
                        /\ UNCHANGED dns_records
    /\ UNCHANGED <<next_uuid, admin_users, trackerVars, envVars, childVars, traceVars, timeVars, limiterVars, requestVars>>

\* delete_client_site resumes with the answer of get_dns_record
delete_dns_get(t, api_ok, content, drop_ok, applied) ==
    /\ tasks[t].pc = "d_dns_get"
    /\ content \in dns_records[tasks[t].sub] \cup {NoId}
    /\ content = NoId <=> (~api_ok \/ dns_records[tasks[t].sub] = {})
    /\ IF content # NoId
       THEN \* await delete_dns_record(existing_record["id"])
            /\ tasks' = [tasks EXCEPT ![t].pc = "d_dns_delete", ![t].record = content]
            /\ UNCHANGED <<client_sites, provisioning_log, client_site_events, schemas,
                           seeded_admins, resp>>
       ELSE delete_tail(t, tasks[t].sub, tasks[t].id, provisioning_log, drop_ok, applied)
    /\ UNCHANGED <<next_uuid, admin_users, dns_records, trackerVars, envVars, childVars, traceVars, timeVars, limiterVars, requestVars>>

\* delete_client_site resumes with the answer of delete_dns_record
delete_dns_delete(t, api_ok, drop_ok, applied) ==
    /\ tasks[t].pc = "d_dns_delete"
    /\ api_ok => tasks[t].record \in dns_records[tasks[t].sub]
    /\ dns_records' = IF api_ok
                      THEN [dns_records EXCEPT ![tasks[t].sub] = @ \ {tasks[t].record}]
                      ELSE dns_records
    /\ delete_tail(t, tasks[t].sub, tasks[t].id, provisioning_log, drop_ok, applied)
    /\ UNCHANGED <<next_uuid, admin_users, trackerVars, envVars, childVars, traceVars, timeVars, limiterVars, requestVars>>

\* a status change that writes its log entry under the action suspend
logged_action_suspend(action) == "suspend"

\* action=... of the log entry written by the handler
logged_action(action) == action

\* the shared body of suspend_client_site and activate_client_site
set_status(s, action, status, is_active) ==
    /\ LET found == BySubdomain(client_sites, s) IN
       IF found = {}
       THEN /\ resp' = Failure(action, s, 404, "not_found")
            /\ UNCHANGED <<client_sites, provisioning_log>>
       ELSE LET row == [First(found) EXCEPT !.status = status, !.is_active = is_active] IN
            /\ LogRoom
            /\ client_sites' = UpdateRow(client_sites, First(found), row)
            /\ provisioning_log' = Append(provisioning_log,
                   ClientSiteProvisioningLog(row.id, s, logged_action(action), "completed",
                                             NoMeta))
            /\ resp' = Envelope(action, row)
    /\ UNCHANGED <<client_site_events, next_uuid, admin_users, extVars, trackerVars, tasks, envVars, childVars, traceVars, timeVars, limiterVars, requestVars>>

\* PUT /client-sites/{subdomain}/suspend -> suspend_client_site
suspend_client_site(s) == set_status(s, "suspend", "suspended", FALSE)

\* activate_client_site that restores the status but not the flag
activate_client_site_flag_kept(s) == set_status(s, "activate", "active", FALSE)

\* PUT /client-sites/{subdomain}/activate -> activate_client_site
activate_client_site(s) == set_status(s, "activate", "active", TRUE)

\* GET /client-sites/{subdomain}/provision-status -> get_client_site_status
StatusResponse(sites, s) ==
    IF BySubdomain(sites, s) = {} THEN Failure("status", s, 404, "not_found")
    ELSE Envelope("status", First(BySubdomain(sites, s)))

\* positions of the log rows of one client site
LogsOf(log, id) == {i \in 1..Len(log) : log[i].client_site_id = id}

\* order_by(started_at.desc()).first(): started_at is the server's now(), which
\* PostgreSQL keeps to the microsecond, so that rows of successive transactions
\* are ordered as they were inserted, and SQLite (CURRENT_TIMESTAMP) to the
\* second, so that rows of one second tie and either may come first
newest_first(log, id) ==
    LET latest == {i \in LogsOf(log, id) :
                     \A j \in LogsOf(log, id) : log[j].started_at <= log[i].started_at}
    IN  IF is_sqlite THEN latest
        ELSE {i \in latest : \A j \in latest : j <= i}

get_client_site_status(s) ==
    /\ IF BySubdomain(client_sites, s) = {} \/
          LogsOf(provisioning_log, First(BySubdomain(client_sites, s)).id) = {}
       THEN resp' = StatusResponse(client_sites, s)
       ELSE \E i \in newest_first(provisioning_log, First(BySubdomain(client_sites, s)).id) :
              resp' = [StatusResponse(client_sites, s) EXCEPT
                         !.latest_action = provisioning_log[i].action,
                         !.latest_status = provisioning_log[i].status]
    /\ UNCHANGED <<client_sites, provisioning_log, client_site_events, next_uuid, admin_users,
                   extVars, trackerVars, tasks, envVars, childVars, traceVars, timeVars, limiterVars, requestVars>>

-----------------------------------------------------------------------------
(* Child service: src/child/middleware.py, src/child/auth.py, src/child/main.py *)

MaxRequestSize == 10485760

\* subdomains that the pattern ^[a-zA-Z0-9-]+$ or the hyphen rule refuses
MalformedSubdomains == {"", "-bad"}

NoInfo == [id |-> NoId, subdomain |-> NoId, status |-> NoId, is_active |-> FALSE]

\* str.join: the pieces with sep between them
RECURSIVE Join(_, _)
Join(pieces, sep) ==
    IF pieces = <<>> THEN <<>>
    ELSE IF Len(pieces) = 1 THEN <<pieces[1]>>
    ELSE <<pieces[1], sep>> \o Join(Tail(pieces), sep)

\* Host header as the text the client sent, label by label: the labels joined
\* with "." and, when port holds, ":" and a port number after them
Host(labels, port) == Join(labels, ".") \o (IF port THEN <<":", "8000">> ELSE <<>>)

\* text.split(sep)[0]
RECURSIVE BeforeFirst(_, _)
BeforeFirst(text, sep) ==
    IF text = <<>> \/ Head(text) = sep THEN <<>>
    ELSE <<Head(text)>> \o BeforeFirst(Tail(text), sep)

\* text.split(sep)
RECURSIVE Split(_, _)
Split(text, sep) ==
    LET first == BeforeFirst(text, sep) IN
    IF Len(first) = Len(text) THEN <<first>>
    ELSE <<first>> \o Split(SubSeq(text, Len(first) + 2, Len(text)), sep)

\* one part of a split host as a string
Text(part) == IF part = <<>> THEN "" ELSE part[1]

\* host.split(":")[0].split(".") and the choice of parts[0]
get_subdomain_from_host(host) ==
    IF host = <<>> THEN ""
    ELSE LET parts == Split(BeforeFirst(host, ":"), ".") IN
         IF Len(parts) > 2 THEN Text(parts[1])
         ELSE IF Len(parts) = 2 /\ Text(parts[1]) # "localhost" THEN Text(parts[1])
         ELSE ""

\* a resolver that asks the X-Client-Site-ID header before the Host header
resolved_subdomain_header_first(req) ==
    IF req.x_client_site_id # "" THEN req.x_client_site_id
    ELSE IF get_subdomain_from_host(req.host) # "" THEN get_subdomain_from_host(req.host)
    ELSE req.query_subdomain

\* host subdomain, else X-Client-Site-ID, else the query parameter subdomain
resolved_subdomain(req) ==
    IF get_subdomain_from_host(req.host) # "" THEN get_subdomain_from_host(req.host)
    ELSE IF req.x_client_site_id # "" THEN req.x_client_site_id
    ELSE req.query_subdomain

validate_request_security(req) ==
    /\ ~req.unexpected_header
    /\ req.content_length.present =>
          (req.content_length.numeric /\ req.content_length.size <= MaxRequestSize)

validate_header_consistency(req, client_site_header) ==
    \/ client_site_header = ""
    \/ get_subdomain_from_host(req.host) = ""
    \/ client_site_header = get_subdomain_from_host(req.host)

validate_subdomain_format(subdomain) == subdomain \notin MalformedSubdomains

\* the answers of the parent service to GET /client-sites/{subdomain}/validate:
\* the route table of the parent has no such route (404), or the call fails
parent_validate_answers(sites, subdomain) ==
    {[code |-> 404, info |-> NoInfo], [code |-> 0, info |-> NoInfo]}

validate_client_site_with_parent(bypass, subdomain, answer) ==
    IF bypass
    THEN [id |-> "dev-client-site", subdomain |-> subdomain, status |-> "active",
          is_active |-> TRUE]
    ELSE IF answer.code = 200 THEN answer.info
    ELSE NoInfo

\* what ClientSiteMiddleware.dispatch decides: a response of its own (code), or
\* call_next with request.state.client_site and request.state.client_site_info
Passed(client_site, info) ==
    [passed |-> TRUE, code |-> 200, client_site |-> client_site, client_site_info |-> info]
Rejected(code) ==
    [passed |-> FALSE, code |-> code, client_site |-> NoId, client_site_info |-> NoInfo]

dispatch(req, answer) ==
    LET subdomain == resolved_subdomain(req) IN
    IF req.method = "OPTIONS" THEN Passed(NoId, NoInfo)
    ELSE IF req.x_internal_service \/ bypass_validation
    THEN Passed(IF subdomain = "" THEN "localhost" ELSE subdomain, NoInfo)
    ELSE IF subdomain = "" THEN Rejected(400)
    ELSE IF ~validate_request_security(req) THEN Rejected(400)
    ELSE IF ~validate_header_consistency(req, subdomain) THEN Rejected(400)
    ELSE IF ~validate_subdomain_format(subdomain) THEN Rejected(400)
    ELSE LET client_site_info ==
                 validate_client_site_with_parent(bypass_validation, subdomain, answer)
         IN  IF client_site_info = NoInfo THEN Rejected(404)
             ELSE Passed(subdomain, client_site_info)

\* jwt.encode of data plus client_id, which is added only when truthy
create_access_token(data, client_id) ==
    [sub |-> data, client_id |-> IF client_id \in {NoId, ""} THEN NoId ELSE client_id]

\* the Authorization headers a client can send: none, a token signed with
\* another key, or an issued token, possibly past its exp claim
NoBearer == [bearer |-> FALSE, signed |-> FALSE, expired |-> FALSE, client_id |-> NoId]
Credentials(issued) ==
    {NoBearer}
    \cup {[bearer |-> TRUE, signed |-> FALSE, expired |-> FALSE, client_id |-> "acme"]}
    \cup {[bearer |-> TRUE, signed |-> TRUE, expired |-> e, client_id |-> tk.client_id] :
             tk \in issued, e \in BOOLEAN}

\* the auth context of validate_jwt_client_id, or the status of its HTTPException
validate_jwt_client_id(req) ==
    LET cred == req.authorization
        subdomain == IF resolved_subdomain(req) = "" THEN "localhost"
                     ELSE resolved_subdomain(req)
    IN  IF ~cred.bearer THEN [code |-> 401, client_id |-> NoId, tenant |-> NoInfo]
        ELSE IF ~cred.signed \/ cred.expired
        THEN [code |-> 401, client_id |-> NoId, tenant |-> NoInfo]
        ELSE [code |-> 200, client_id |-> cred.client_id,
              tenant |-> [NoInfo EXCEPT !.subdomain = subdomain, !.id = cred.client_id]]


\* GET /auth/me behind ClientSiteMiddleware, with Depends(validate_jwt_client_id);
\* an OPTIONS request passes the middleware and finds no route (405)
child_request(req, answer) ==
    /\ req.method \in {"GET", "OPTIONS"}
    /\ LET d == dispatch(req, answer)
           auth_context == validate_jwt_client_id(req)
       IN  resp' = IF ~d.passed THEN Response("request", resolved_subdomain(req), d.code)
                   ELSE IF req.method = "OPTIONS"
                   THEN Response("request", resolved_subdomain(req), 405)
                   ELSE IF auth_context.code # 200
                   THEN Failure("request", resolved_subdomain(req), auth_context.code, "token")
                   ELSE [Response("request", resolved_subdomain(req), 200) EXCEPT
                            !.handler = TRUE, !.client_id = auth_context.client_id,
                            !.tenant = auth_context.tenant.subdomain]
    /\ UNCHANGED <<client_sites, provisioning_log, client_site_events, next_uuid, admin_users,
                   extVars, trackerVars, tasks, envVars, childVars, traceVars, timeVars, limiterVars>>

\* POST /auth/login behind ClientSiteMiddleware; authenticated tells whether
\* the credentials of the body were accepted
login(req, answer, authenticated) ==
    /\ req.method = "POST"
    /\ LET d == dispatch(req, answer)
           tenant == resolved_subdomain(req)
           client_site_id == IF d.client_site_info # NoInfo THEN d.client_site_info.id
                             ELSE tenant
       IN  IF ~d.passed
           THEN /\ resp' = Response("login", tenant, d.code)
                /\ UNCHANGED issued_tokens
           ELSE IF tenant = ""
           THEN /\ resp' = Response("login", tenant, 400)
                /\ UNCHANGED issued_tokens
           ELSE IF ~authenticated
           THEN /\ resp' = Response("login", tenant, 401)
                /\ UNCHANGED issued_tokens
           ELSE /\ issued_tokens' = issued_tokens
                       \cup {create_access_token("user", client_site_id)}
                /\ resp' = [Response("login", tenant, 200) EXCEPT
                               !.handler = TRUE, !.client_id = client_site_id]
    /\ UNCHANGED <<client_sites, provisioning_log, client_site_events, next_uuid, admin_users,
                   extVars, trackerVars, tasks, envVars, traceVars, timeVars, limiterVars>>

\* POST /token of src/main.py: create_access_token(data={"sub": user.username})
root_login(authenticated) ==
    /\ IF ~authenticated
       THEN /\ resp' = Response("token", NoId, 401)
            /\ UNCHANGED issued_tokens
       ELSE /\ issued_tokens' = issued_tokens \cup {create_access_token("user", NoId)}
            /\ resp' = Response("token", NoId, 200)
    /\ UNCHANGED <<client_sites, provisioning_log, client_site_events, next_uuid, admin_users,
                   extVars, trackerVars, tasks, envVars, traceVars, timeVars, limiterVars>>

-----------------------------------------------------------------------------
(* Inputs of the handlers and answers of the external systems *)

SchemaOutcomes == BOOLEAN     \* CREATE SCHEMA / drop_client_site_schema succeeded
ApiOutcomes == BOOLEAN        \* the Cloudflare call succeeded
SslOutcomes == {"issued"}     \* issue_certificate returned success
SeedOutcomes == {"seeded"}    \* the INSERT of the admin user was accepted
CommitOutcomes == BOOLEAN     \* the commit inside an except branch succeeded

\* every answer of the certificate step and of the admin seed step
CertificateResults == {"issued", "failed", "raised"}
SeedResults == {"seeded", "raised", "aborted"}

\* the segments of create_client_site run by coroutines TS for subdomains SS,
\* with the schema statements answering from SO, issue_certificate from SSL and
\* _seed_admin_user from SEED
Provision(TS, SS, SO, SSL, SEED) ==
    \/ \E t \in TS, s \in SS, n \in Names, st \in SettingsInputs,
          schema_ok \in SO, ssl \in SSL, seed \in SEED :
            create_client_site(t, s, n, st, schema_ok, ssl, seed)
    \/ \E t \in TS, api_ok \in ApiOutcomes, ssl \in SSL, seed \in SEED,
          c \in DnsContents \cup {NoId} :
            create_dns_get(t, api_ok, c, ssl, seed)
    \/ \E t \in TS, api_ok \in ApiOutcomes, ssl \in SSL, seed \in SEED :
            create_dns_update(t, api_ok, ssl, seed)
    \/ \E t \in TS, api_ok \in ApiOutcomes, ssl \in SSL, seed \in SEED :
            create_dns_create(t, api_ok, ssl, seed)

\* create_client_site where the certificate and the seed step succeed
Create(TS, SS, SO) == Provision(TS, SS, SO, SslOutcomes, SeedOutcomes)

\* the segments of delete_client_site
Delete(TS, SS, SO) ==
    \/ \E t \in TS, s \in SS, drop_ok \in SO, applied \in CommitOutcomes :
            delete_client_site(t, s, drop_ok, applied)
    \/ \E t \in TS, api_ok \in ApiOutcomes, drop_ok \in SO,
          applied \in CommitOutcomes, c \in DnsContents \cup {NoId} :
            delete_dns_get(t, api_ok, c, drop_ok, applied)
    \/ \E t \in TS, api_ok \in ApiOutcomes, drop_ok \in SO,
          applied \in CommitOutcomes :
            delete_dns_delete(t, api_ok, drop_ok, applied)

\* the lifecycle endpoints of the parent service
Lifecycle(TS, SS) ==
    \/ Create(TS, SS, SchemaOutcomes)
    \/ Delete(TS, SS, SchemaOutcomes)
    \/ \E s \in SS : suspend_client_site(s)
    \/ \E s \in SS : activate_client_site(s)
    \/ \E s \in SS : get_client_site_status(s)
    \/ \E s \in SS : update_heartbeat(s)

\* the registry endpoints of the parent service
Register(SS) == \E s \in SS, n \in Names : create_new_client_site(s, n)

ActivateById ==
    \/ \E n \in 1..MaxIds : activate_client_site_by_id(Uuid(n))
    \/ \E n \in 1..MaxIds : deactivate_client_site_by_id(Uuid(n))

\* PostgreSQL deployment with certbot; Cloudflare configured or not
Deployed ==
    /\ ~is_sqlite
    /\ cert_manager_configured
    /\ ~bypass_validation

\* Spec: the lifecycle of one tenant, one orchestrator coroutine at a time
InitSpec ==
    /\ Init
    /\ Deployed
    /\ dns_records["beta"] = {}
Next == Lifecycle({"t1"}, {"acme"})
Spec == InitSpec /\ [][Next]_vars

\* RaceSpec: one tenant, two orchestrator coroutines in flight, racing with
\* each other and with the heartbeat that registers a client site lazily; the
\* schema statements succeed
InitRace ==
    /\ Init
    /\ Deployed
    /\ cloudflare_configured
    /\ dns_records["beta"] = {}
NextRace ==
    \/ Create(Tasks, {"acme"}, {TRUE})
    \/ Delete(Tasks, {"acme"}, {TRUE})
    \/ update_heartbeat("acme")
RaceSpec == InitRace /\ [][NextRace]_vars

\* ProvisionSpec: create_client_site of one tenant in every environment, with
\* every answer of the schema, DNS, certificate and seed steps
InitProvision ==
    /\ Init
    /\ ~bypass_validation
    /\ dns_records["beta"] = {}
NextProvision ==
    Provision({"t1"}, {"acme", "-bad"}, SchemaOutcomes, CertificateResults, SeedResults)
ProvisionSpec == InitProvision /\ [][NextProvision]_vars

\* TeardownSpec: one tenant provisioned and deleted again and again, on SQLite
\* and on PostgreSQL, with and without Cloudflare, while its heartbeat arrives
InitTeardown ==
    /\ Init
    /\ cert_manager_configured
    /\ ~bypass_validation
    /\ dns_records["beta"] = {}
NextTeardown ==
    \/ Create({"t1"}, {"acme"}, {TRUE})
    \/ Delete({"t1"}, {"acme"}, SchemaOutcomes)
    \/ update_heartbeat("acme")
TeardownSpec == InitTeardown /\ [][NextTeardown]_vars

\* RegistrySpec: the endpoints that take no orchestrator coroutine, on two
\* subdomains: registration, heartbeat, activation by id, suspend, activate
\* and the provisioning status
InitRegistry ==
    /\ Init
    /\ Deployed
    /\ ~cloudflare_configured
    /\ dns_records = [s \in RequestedSubdomains |-> {}]
NextRegistry ==
    \/ Register(Subdomains)
    \/ ActivateById
    \/ \E s \in Subdomains : update_heartbeat(s)
    \/ \E s \in Subdomains : suspend_client_site(s)
    \/ \E s \in Subdomains : activate_client_site(s)
    \/ \E s \in Subdomains : get_client_site_status(s)
RegistrySpec == InitRegistry /\ [][NextRegistry]_vars

\* the seconds that pass between two requests: 10 + 290 = 300, 300 + 100 = 400
Ticks == {10, 100, 290}

\* HeartbeatSpec: registration and heartbeats of one subdomain and status
\* queries for it and for an unknown one, while time passes
InitHeartbeat ==
    /\ Init
    /\ Deployed
    /\ ~cloudflare_configured
    /\ dns_records = [s \in RequestedSubdomains |-> {}]
NextHeartbeat ==
    \/ Register({"acme"})
    \/ update_heartbeat("acme")
    \/ \E s \in Subdomains : get_tenant_status_endpoint(s)
    \/ \E d \in Ticks : tick(d)
HeartbeatSpec == InitHeartbeat /\ [][NextHeartbeat]_vars

\* the orchestrator's operations on one subdomain without a DNS provider, on
\* SQLite and on PostgreSQL, with time passing between the calls
Seconds == {200}
InitStatus ==
    /\ Init
    /\ cert_manager_configured
    /\ ~bypass_validation
    /\ ~cloudflare_configured
    /\ dns_records = [s \in RequestedSubdomains |-> {}]
NextStatus ==
    \/ \E st \in SettingsInputs, schema_ok \in SchemaOutcomes :
          create_client_site("t1", "acme", "Acme Corp", st, schema_ok, "issued", "seeded")
    \/ \E drop_ok \in SchemaOutcomes, applied \in CommitOutcomes :
          delete_client_site("t1", "acme", drop_ok, applied)
    \/ suspend_client_site("acme")
    \/ activate_client_site("acme")
    \/ get_client_site_status("acme")
    \/ \E d \in Seconds : tick(d)
StatusSpec == InitStatus /\ [][NextStatus]_vars

\* create_client_site for acme, stopped with the server process at any point
\* before the record is written and invoked again, for a subdomain that has no
\* DNS record yet
Interrupt(TS, SS) ==
    \/ \E t \in TS, dns_applied \in BOOLEAN : interrupt_create(t, dns_applied)
    \/ \E t \in TS, s \in SS, seeded \in BOOLEAN : interrupt_create_before_record(t, s, seeded)
    \/ \E t \in TS : interrupt_create_after_seed(t)
InitRetry ==
    /\ Init
    /\ cert_manager_configured
    /\ ~bypass_validation
    /\ dns_records = [s \in RequestedSubdomains |-> {}]
NextRetry ==
    \/ \E st \in SettingsInputs :
          create_client_site("t1", "acme", "Acme Corp", st, TRUE, "issued", "seeded")
    \/ \E api_ok \in ApiOutcomes, c \in DnsContents \cup {NoId} :
          create_dns_get("t1", api_ok, c, "issued", "seeded")
    \/ \E api_ok \in ApiOutcomes : create_dns_create("t1", api_ok, "issued", "seeded")
    \/ Interrupt({"t1"}, {"acme"})
    \/ get_client_site_status("acme")
RetrySpec == InitRetry /\ [][NextRetry]_vars

\* the segments of ensure_dns_record called on its own
Ensure(TS, SS) ==
    \/ \E t \in TS, s \in SS : ensure_dns_record(t, s)
    \/ \E t \in TS, api_ok \in ApiOutcomes, c \in DnsContents \cup {NoId} :
            ensure_dns_get(t, api_ok, c)
    \/ \E t \in TS, api_ok \in ApiOutcomes : ensure_dns_update(t, api_ok)
    \/ \E t \in TS, api_ok \in ApiOutcomes : ensure_dns_create(t, api_ok)

\* DnsSpec: ensure_dns_record called again and again, one call at a time, on a
\* zone that starts with or without a record for each subdomain
InitDns ==
    /\ Init
    /\ Deployed
NextDns == Ensure({"t1"}, Subdomains)
DnsSpec == InitDns /\ [][NextDns]_vars

\* the requests a client of the child service can send
Hosts ==
    {Host(<<"acme", "example", "com">>, FALSE), Host(<<"beta", "example", "com">>, TRUE),
     Host(<<"localhost">>, TRUE)}
NoContentLength == [present |-> FALSE, numeric |-> FALSE, size |-> 0]

\* requests with a well-formed body and no header beyond the tenant headers
PlainRequests(methods, credentials) ==
    [method : methods, host : Hosts, x_client_site_id : {"", "acme"},
     query_subdomain : {""}, x_internal_service : BOOLEAN, unexpected_header : {FALSE},
     content_length : {NoContentLength}, authorization : credentials]

\* requests that try one of the fallbacks or one of the security checks
ProbeRequests ==
    LET base == [method |-> "GET", host |-> Host(<<"localhost">>, TRUE),
                 x_client_site_id |-> "", query_subdomain |-> "",
                 x_internal_service |-> FALSE, unexpected_header |-> FALSE,
                 content_length |-> NoContentLength, authorization |-> NoBearer]
    IN  {[base EXCEPT !.query_subdomain = "beta"],
         [base EXCEPT !.x_client_site_id = "acme", !.query_subdomain = "beta"],
         [base EXCEPT !.x_client_site_id = "-bad"],
         [base EXCEPT !.x_client_site_id = "acme", !.unexpected_header = TRUE],
         [base EXCEPT !.x_client_site_id = "acme",
                      !.content_length = [present |-> TRUE, numeric |-> TRUE,
                                          size |-> MaxRequestSize + 1]],
         [base EXCEPT !.x_client_site_id = "acme",
                      !.content_length = [present |-> TRUE, numeric |-> TRUE,
                                          size |-> MaxRequestSize]],
         [base EXCEPT !.x_client_site_id = "acme",
                      !.content_length = [present |-> TRUE, numeric |-> FALSE,
                                          size |-> 0]]}

Requests(issued) == PlainRequests({"GET", "OPTIONS"}, Credentials(issued)) \cup ProbeRequests
LoginRequests == PlainRequests({"POST"}, {NoBearer})

\* the endpoints of the child service
Child ==
    \/ \E req \in Requests(issued_tokens) :
          \E answer \in parent_validate_answers(client_sites, resolved_subdomain(req)) :
            child_request(req, answer) /\ UNCHANGED request
    \/ \E req \in LoginRequests, authenticated \in BOOLEAN :
          \E answer \in parent_validate_answers(client_sites, resolved_subdomain(req)) :
            login(req, answer, authenticated) /\ UNCHANGED request
    \/ \E authenticated \in BOOLEAN : root_login(authenticated) /\ UNCHANGED request

\* ChildSpec: the child service in front of a registry in which acme is
\* registered by its heartbeat, suspended and activated
InitChild ==
    /\ Init
    /\ ~is_sqlite
    /\ cert_manager_configured
    /\ ~cloudflare_configured
    /\ dns_records = [s \in RequestedSubdomains |-> {}]
NextChild ==
    \/ Child
    \/ update_heartbeat("acme")
    \/ suspend_client_site("acme")
    \/ activate_client_site("acme")
ChildSpec == InitChild /\ [][NextChild]_vars

\* the child service alone, with and without BYPASS_CLIENT_SITE_VALIDATION,
\* asked under every kind of Host header with and without the fallbacks
ResolverHosts ==
    {Host(<<>>, FALSE), Host(<<"localhost">>, TRUE),
     Host(<<"example", "com">>, FALSE), Host(<<"example", "com">>, TRUE),
     Host(<<"acme", "example", "com">>, FALSE), Host(<<"beta", "example", "com">>, TRUE)}
ResolverRequests ==
    [method : {"GET", "OPTIONS", "POST"}, host : ResolverHosts,
     x_client_site_id : {"", "acme"}, query_subdomain : {"", "beta"},
     x_internal_service : BOOLEAN, unexpected_header : {FALSE},
     content_length : {NoContentLength}, authorization : {NoBearer}]

\* a request reaches the child service
receive(req) ==
    /\ request = NoRequest
    /\ request' = req
    /\ UNCHANGED <<client_sites, provisioning_log, client_site_events, next_uuid, admin_users,
                   extVars, trackerVars, tasks, resp, envVars, childVars, traceVars, timeVars, limiterVars>>

\* the child service answers the request: ClientSiteMiddleware.dispatch and,
\* behind it, GET /auth/me or POST /auth/login
serve ==
    /\ request # NoRequest
    /\ request' = NoRequest
    /\ \E answer \in parent_validate_answers(client_sites, resolved_subdomain(request)) :
          \/ child_request(request, answer)
          \/ \E authenticated \in BOOLEAN : login(request, answer, authenticated)

InitResolver ==
    /\ Init
    /\ ~is_sqlite
    /\ cert_manager_configured
    /\ ~cloudflare_configured
    /\ dns_records = [s \in RequestedSubdomains |-> {}]
NextResolver ==
    \/ \E req \in ResolverRequests : receive(req)
    \/ serve
ResolverSpec == InitResolver /\ [][NextResolver]_vars

\* the registry of the parent service with one subdomain, its orchestrator's
\* suspend and activate, and the child service answering requests for it
FrameRequests ==
    {req \in ResolverRequests :
        /\ req.host = Host(<<"acme", "example", "com">>, FALSE)
        /\ req.x_client_site_id = "" /\ req.query_subdomain = ""}
InitFrame ==
    /\ Init
    /\ ~is_sqlite
    /\ cert_manager_configured
    /\ ~cloudflare_configured
    /\ dns_records = [s \in RequestedSubdomains |-> {}]
NextFrame ==
    \/ Register({"acme"})
    \/ ActivateById
    \/ update_heartbeat("acme")
    \/ suspend_client_site("acme")
    \/ activate_client_site("acme")
    \/ get_client_site_status("acme")
    \/ \E req \in FrameRequests : receive(req)
    \/ serve
FrameSpec == InitFrame /\ [][NextFrame]_vars

\* OutageSpec: one tenant provisioned and deleted again and again on a
\* database that cannot be reached at times
InitOutage ==
    /\ Init
    /\ Deployed
    /\ dns_records["beta"] = {}
NextOutage ==
    \/ Create({"t1"}, {"acme"}, SchemaOutcomes)
    \/ create_client_site_query_fails("t1", "acme")
    \/ Delete({"t1"}, {"acme"}, {TRUE})
    \/ get_client_site_status("acme")
OutageSpec == InitOutage /\ [][NextOutage]_vars

\* AccessSpec: validate_data_access for requests with and without a client-site
\* context, with the bypass on and off
InitAccess ==
    /\ Init
    /\ ~is_sqlite
    /\ cert_manager_configured
    /\ ~cloudflare_configured
    /\ dns_records = [s \in RequestedSubdomains |-> {}]
NextAccess ==
    \/ \E c \in ClientSiteContexts \cup {NoContext} : receive_with_state(c)
    \/ \E n \in 1..MaxIds : validate_data_access(Uuid(n))
AccessSpec == InitAccess /\ [][NextAccess]_vars

\* LimiterSpec: check_rate_limit called for three pairs of address and tenant
\* while the clock advances by less than a window at a time
LimiterPairs == {<<"10.0.0.1", "acme">>, <<"10.0.0.1", "beta">>, <<"10.0.0.2", "acme">>}
Pauses == {50}
InitLimiter ==
    /\ Init
    /\ Deployed
    /\ ~cloudflare_configured
    /\ dns_records = [s \in RequestedSubdomains |-> {}]
NextLimiter ==
    \/ \E pair \in LimiterPairs : check_rate_limit(pair[1], pair[2])
    \/ \E d \in Pauses : tick(d)
LimiterSpec == InitLimiter /\ [][NextLimiter]_vars

-----------------------------------------------------------------------------
(* The tracker on its own: the module-level functions of performance_monitor.py
   called for two tenant ids, with the clock advancing between the calls *)

StepNames == {"dns_record_creation"}

\* the clock is read before and after one long pause
Leaps == {400}

\* a tenant whose provisioning runs were tracked before the calls explored here
OldTenant == "old"

\* completed_provisioning after n completed runs of OldTenant, every other one
\* successful
History(n) ==
    [i \in 1..n |-> [client_site_id |-> OldTenant, start_time |-> 0, end_time |-> 0,
                     duration_seconds |-> 0, success |-> i % 2 = 0, steps |-> <<>>]]

\* metrics after n recorded response times, the i-th of i % 2 seconds
Recorded(n) ==
    [i \in 1..n |-> [metric_type |-> "api_response_time", value |-> i % 2, timestamp |-> 0,
                     client_site_id |-> NoId]]

\* runs tracked since Init: completed and still in the history, or in flight
Tracked(id) ==
    Cardinality({i \in 1..Len(completed_provisioning) :
                    completed_provisioning[i].client_site_id # OldTenant})
    + Cardinality(DOMAIN active_provisioning \cup {id})

\* metrics recorded since Init and still in the buffer
NewMetrics == Cardinality({i \in 1..Len(metrics) : metrics[i].timestamp > 0})

\* start_provisioning_tracking(client_site_id): returns None, raises nothing
start_provisioning_tracking(id) ==
    /\ Tracked(id) <= MaxCompleted
    /\ active_provisioning' = start_provisioning(active_provisioning, id)
    /\ resp' = Response("start_provisioning", id, 0)
    /\ UNCHANGED <<client_sites, provisioning_log, client_site_events, next_uuid, admin_users,
                   extVars, completed_provisioning, metrics, tasks, envVars, childVars,
                   traceVars, timeVars, limiterVars, requestVars>>

\* record_provisioning_step(client_site_id, step_name, success, error)
record_provisioning_step_tracking(id, step_name, success) ==
    /\ id \in DOMAIN active_provisioning => Len(active_provisioning[id].steps) < MaxSteps
    /\ active_provisioning' =
           record_provisioning_step(active_provisioning, id, step_name, success)
    /\ resp' = Response("record_provisioning_step", id, 0)
    /\ UNCHANGED <<client_sites, provisioning_log, client_site_events, next_uuid, admin_users,
                   extVars, completed_provisioning, metrics, tasks, envVars, childVars,
                   traceVars, timeVars, limiterVars, requestVars>>

\* complete_provisioning_tracking(client_site_id, success, error_message)
complete_provisioning_tracking(id, success) ==
    /\ LET done == complete_provisioning(active_provisioning, completed_provisioning, id,
                                         success) IN
       /\ active_provisioning' = done[1]
       /\ completed_provisioning' = done[2]
       /\ metrics' = done[3]
    /\ resp' = Response("complete_provisioning", id, 0)
    /\ UNCHANGED <<client_sites, provisioning_log, client_site_events, next_uuid, admin_users,
                   extVars, tasks, envVars, childVars, traceVars, timeVars, limiterVars, requestVars>>

\* record_api_response_time(endpoint, response_time): one more metric
record_api_response_time(response_time) ==
    /\ clock > 0
    /\ NewMetrics < MaxMetrics
    /\ metrics' = record_metric(metrics,
                       PerformanceMetric("api_response_time", response_time, NoId))
    /\ resp' = Response("record_api_response_time", NoId, 0)
    /\ UNCHANGED <<client_sites, provisioning_log, client_site_events, next_uuid, admin_users,
                   extVars, active_provisioning, completed_provisioning, tasks, envVars,
                   childVars, traceVars, timeVars, limiterVars, requestVars>>

\* a monitor that has tracked nothing yet
InitTracker ==
    /\ Init
    /\ ~cloudflare_configured
    /\ cert_manager_configured
    /\ ~is_sqlite
    /\ ~bypass_validation
    /\ dns_records = [s \in RequestedSubdomains |-> {}]
NextTracker ==
    \/ \E id \in Subdomains : start_provisioning_tracking(id)
    \/ \E id \in Subdomains, n \in StepNames :
          record_provisioning_step_tracking(id, n, TRUE)
    \/ \E id \in Subdomains, ok \in BOOLEAN : complete_provisioning_tracking(id, ok)
    \/ \E d \in Leaps : tick(d)
TrackerSpec == InitTracker /\ [][NextTracker]_vars

\* a monitor whose history is one short of full, or whose metrics are
InitBuffer ==
    /\ client_sites = {}
    /\ provisioning_log = <<>>
    /\ client_site_events = <<>>
    /\ next_uuid = 0
    /\ schemas = {}
    /\ dns_records = [s \in RequestedSubdomains |-> {}]
    /\ active_provisioning = [k \in {} |-> <<>>]
    /\ \/ completed_provisioning = History(CompletedMaxLen - 1) /\ metrics = <<>>
       \/ completed_provisioning = <<>> /\ metrics = Recorded(max_metrics - 1)
    /\ tasks = [t \in Tasks |-> IdleTask]
    /\ seeded_admins = {}
    /\ admin_users = {}
    /\ cloudflare_configured = FALSE
    /\ cert_manager_configured = TRUE
    /\ is_sqlite = FALSE
    /\ bypass_validation = FALSE
    /\ issued_tokens = {}
    /\ ensure_trace = <<>>
    /\ clock = 0
    /\ request = NoRequest
    /\ request_tracker = [k \in {} |-> NoId]
    /\ accepted = <<>>
    /\ resp = Response("none", NoId, 0)
NextBuffer ==
    \/ start_provisioning_tracking("acme")
    \/ \E ok \in BOOLEAN : complete_provisioning_tracking("acme", ok)
    \/ \E rt \in {1} : record_api_response_time(rt)
    \/ \E d \in Leaps : tick(d)
BufferSpec == InitBuffer /\ [][NextBuffer]_vars

-----------------------------------------------------------------------------
(* Properties of the parent service *)

\* a call of POST /client-sites/provision for subdomain s
CreateCalled(s, schema_ok) ==
    \E t \in Tasks, n \in Names, st \in SettingsInputs,
       ssl \in SslOutcomes, seed \in SeedOutcomes :
        create_client_site(t, s, n, st, schema_ok, ssl, seed)

\* C1: create(S) while a record for S exists fails with AlreadyExists (400) and
\* leaves the registry as it was, with exactly one record for S
C1_CreateExistingRejected ==
    [][\A s \in Subdomains :
          (BySubdomain(client_sites, s) # {} /\ \E ok \in SchemaOutcomes : CreateCalled(s, ok))
          => /\ resp' = Failure("create", s, 400, "exists")
             /\ client_sites' = client_sites
             /\ Cardinality(BySubdomain(client_sites', s)) = 1]_vars

C1_Witness ==
    /\ resp = Failure("create", "acme", 400, "exists")
    /\ Cardinality(BySubdomain(client_sites, "acme")) = 1

\* C2: create(S) whose schema creation fails leaves no record for S, and the
\* status query for S answers NotFound (404)
C2_SchemaFailureLeavesNoRecord ==
    [][\A s \in Subdomains :
          (~is_sqlite /\ BySubdomain(client_sites, s) = {} /\ CreateCalled(s, FALSE))
          => /\ resp'.code = 500
             /\ BySubdomain(client_sites', s) = {}
             /\ StatusResponse(client_sites', s) = Failure("status", s, 404, "not_found")]_vars

C2_Witness ==
    /\ resp = Failure("create", "acme", 500, "schema")
    /\ BySubdomain(client_sites, "acme") = {}
    /\ "acme" \notin schemas

\* the transitions of the status field that the registry allows
AllowedTransitions ==
    {<<"pending", "active">>, <<"active", "suspended">>, <<"suspended", "active">>,
     <<"active", "deleted">>, <<"suspended", "deleted">>}

\* C6: the status of a record changes only along an allowed transition; suspend
\* or activate asking for any other transition fails with InvalidTransition (409)
\* and leaves the record unchanged
C6_OnlyAllowedTransitions ==
    [][\A s \in Subdomains : \A r \in BySubdomain(client_sites, s) :
          /\ \A q \in ById(client_sites', r.id) :
                q.status # r.status => <<r.status, q.status>> \in AllowedTransitions
          /\ (suspend_client_site(s) /\ <<r.status, "suspended">> \notin AllowedTransitions)
                => resp'.code = 409 /\ client_sites' = client_sites
          /\ (activate_client_site(s) /\ <<r.status, "active">> \notin AllowedTransitions)
                => resp'.code = 409 /\ client_sites' = client_sites]_vars

\* C7: activate(S) right after a successful delete(S) fails with
\* InvalidTransition (409)
C7_ActivateAfterDeleteInvalid ==
    [][\A s \in Subdomains :
          (resp = [Response("delete", s, 200) EXCEPT !.status = "deleted"]
              /\ activate_client_site(s))
          => resp'.code = 409]_vars

\* C8: suspend sets status = suspended and is_active = false, activate after it
\* sets status = active and is_active = true, and neither changes any other
\* field of the record (id, subdomain, name, settings)
C8_SuspendActivateRoundTrip ==
    [][\A s \in Subdomains : \A r \in BySubdomain(client_sites, s) :
          /\ suspend_client_site(s)
                => /\ BySubdomain(client_sites', s) =
                          {[r EXCEPT !.status = "suspended", !.is_active = FALSE]}
                   /\ resp'.status = "suspended" /\ ~resp'.is_active
          /\ (activate_client_site(s) /\ resp = Envelope("suspend", r))
                => /\ BySubdomain(client_sites', s) =
                          {[r EXCEPT !.status = "active", !.is_active = TRUE]}
                   /\ resp'.status = "active" /\ resp'.is_active]_vars

C8_Witness ==
    /\ Len(provisioning_log) >= 2
    /\ provisioning_log[Len(provisioning_log) - 1].action = "suspend"
    /\ provisioning_log[Len(provisioning_log)].action = "activate"
    /\ provisioning_log[Len(provisioning_log) - 1].subdomain = resp.sub
    /\ resp.op = "activate" /\ resp.code = 200
    /\ \E r \in BySubdomain(client_sites, resp.sub) :
          r.status = "active" /\ r.is_active

\* C9: in every reachable state there is at most one record per subdomain
C9_OneRecordPerSubdomain ==
    \A s \in Subdomains : Cardinality(BySubdomain(client_sites, s)) <= 1

\* a create that passed its existence check resumes and its INSERT is refused
\* because another request inserted the subdomain meanwhile
C9_Witness ==
    /\ resp = Failure("create", "acme", 500, "integrity")
    /\ Cardinality(BySubdomain(client_sites, "acme")) = 1

\* C10: no two create(S) calls for the same subdomain are past the existence
\* check at the same time
C10_CreateSerialised ==
    \A t, u \in InFlightCreates : tasks[t].sub = tasks[u].sub => t = u

-----------------------------------------------------------------------------
(* Properties of create_client_site and its soft steps *)

\* the step in which a create_client_site call for s returns, having passed
\* the existence check and the schema step, with the certificate step
\* answering ssl and the seed step answering seed
CreateReturns(s, ssl, seed) ==
    \E t \in Tasks :
        /\ tasks'[t].pc = "idle"
        /\ \/ /\ existing_client_site(client_sites, s) = {}
              /\ \E n \in Names, st \in SettingsInputs :
                     create_client_site(t, s, n, st, TRUE, ssl, seed)
           \/ /\ tasks[t].sub = s
              /\ \/ \E api_ok \in ApiOutcomes, c \in DnsContents \cup {NoId} :
                        create_dns_get(t, api_ok, c, ssl, seed)
                 \/ \E api_ok \in ApiOutcomes : create_dns_update(t, api_ok, ssl, seed)
                 \/ \E api_ok \in ApiOutcomes : create_dns_create(t, api_ok, ssl, seed)

\* the create call for s succeeded and persisted an active record
CreateSucceeded(s) ==
    /\ resp'.op = "create" /\ resp'.code = 200
    /\ \E r \in BySubdomain(client_sites', s) : r.status = "active" /\ r.is_active

\* C11: once the schema step has succeeded, create succeeds and persists an
\* active record whatever the DNS step, the certificate step (unconfigured,
\* failed, raised, issued) and the admin seed step (failed, succeeded) answer
C11_SoftStepsNeverAbortCreate ==
    [][\A s \in Subdomains, ssl \in CertificateResults, seed \in SeedResults :
          CreateReturns(s, ssl, seed) => CreateSucceeded(s)]_vars

\* the step in which a create_client_site call writes its completed log row,
\* where ensure_dns_record returned a record exactly when dns holds (it is not
\* called when Cloudflare is unconfigured) and issue_certificate answered ssl
CreateCompletes(dns, ssl, seed) ==
    /\ Len(provisioning_log') = Len(provisioning_log) + 1
    /\ \E t \in Tasks :
        \/ /\ ~dns /\ ~cloudflare_configured
           /\ \E s \in Subdomains, n \in Names, st \in SettingsInputs :
                  create_client_site(t, s, n, st, TRUE, ssl, seed)
        \/ dns /\ create_dns_get(t, TRUE, LIGHTSAIL_IP, ssl, seed)
        \/ create_dns_update(t, dns, ssl, seed)
        \/ create_dns_create(t, dns, ssl, seed)

\* the log row written by the step
NewLogRow == provisioning_log'[Len(provisioning_log')]

\* C12: in the completed log entry of a successful create the DNS flag is true
\* exactly when ensure_dns_record returned a record and the certificate flag
\* is true exactly when issuance reported success; each is false when its
\* provider is unconfigured or failed
C12_LogFlagsReportDnsAndCertificate ==
    [][\A dns \in BOOLEAN, ssl \in CertificateResults, seed \in SeedResults :
          CreateCompletes(dns, ssl, seed)
          => /\ NewLogRow.action = "create" /\ NewLogRow.status = "completed"
             /\ NewLogRow.extra_metadata.dns_created = dns
             /\ NewLogRow.extra_metadata.ssl_certificate_issued
                    = (cert_manager_configured /\ ssl = "issued")]_vars

\* a completed create whose DNS record was made and whose certificate failed
C12_Witness ==
    /\ cloudflare_configured /\ cert_manager_configured
    /\ Len(provisioning_log) = 1
    /\ provisioning_log[1].status = "completed"
    /\ provisioning_log[1].extra_metadata.dns_created
    /\ ~provisioning_log[1].extra_metadata.ssl_certificate_issued
    /\ dns_records["acme"] = {LIGHTSAIL_IP}

\* C13: the admin-seeded flag of the completed log entry is true only if the
\* seed step actually inserted the admin user; it is false when the step
\* failed or was skipped (SQLite)
C13_SeedFlagReportsSeeding ==
    [][\A dns \in BOOLEAN, ssl \in CertificateResults, seed \in SeedResults :
          CreateCompletes(dns, ssl, seed)
          => (NewLogRow.extra_metadata.admin_user_seeded
                 => (~is_sqlite /\ seed = "seeded" /\ NewLogRow.subdomain \in seeded_admins'))]_vars

\* C14: when the schema step of create(S) fails, a log entry with action
\* create, status failed and no client site id is durably recorded for S, and
\* the error is returned to the caller
C14_SchemaFailureIsLogged ==
    [][\A s \in Subdomains :
          (~is_sqlite /\ BySubdomain(client_sites, s) = {} /\ CreateCalled(s, FALSE))
          => /\ resp'.code = 500
             /\ \E i \in DOMAIN provisioning_log' :
                    /\ provisioning_log'[i].subdomain = s
                    /\ provisioning_log'[i].action = "create"
                    /\ provisioning_log'[i].status = "failed"]_vars

\* the steps the tracker recorded for the call that completed last
LastCompletedSteps == completed_provisioning'[Len(completed_provisioning')].steps

\* C15: a create(S) rejected because S is already registered made no schema,
\* DNS, certificate or admin-seed call: no external system changed, no step
\* was recorded and the call returned without awaiting Cloudflare
C15_RejectedCreateCallsNothing ==
    [][\A s \in Subdomains :
          (/\ BySubdomain(client_sites, s) # {}
           /\ \E t \in Tasks, n \in Names, st \in SettingsInputs, ok \in SchemaOutcomes,
                 ssl \in CertificateResults, seed \in SeedResults :
                   create_client_site(t, s, n, st, ok, ssl, seed))
          => /\ resp'.code = 400
             /\ schemas' = schemas /\ dns_records' = dns_records
             /\ seeded_admins' = seeded_admins
             /\ next_uuid' = next_uuid
             /\ tasks' = tasks
             /\ LastCompletedSteps = <<>>]_vars

\* a rejected create after a create that ran all its steps
C15_Witness ==
    /\ resp = Failure("create", "acme", 400, "exists")
    /\ Len(completed_provisioning) = 2
    /\ completed_provisioning[1].success /\ Len(completed_provisioning[1].steps) > 0
    /\ ~completed_provisioning[2].success /\ completed_provisioning[2].steps = <<>>

\* C16: create with a malformed subdomain fails with a ValidationError (a
\* client error, not a server error) and creates nothing: no record, no schema,
\* no DNS record, no admin user, no call left in flight
C16_MalformedSubdomainRejected ==
    [][\A s \in RequestedSubdomains :
          (/\ ~security_validate_subdomain_format(s)
           /\ \E t \in Tasks, n \in Names, st \in SettingsInputs, ok \in SchemaOutcomes,
                 ssl \in CertificateResults, seed \in SeedResults :
                   create_client_site(t, s, n, st, ok, ssl, seed))
          => /\ resp'.code \in {400, 422}
             /\ client_sites' = client_sites
             /\ schemas' = schemas /\ dns_records' = dns_records
             /\ seeded_admins' = seeded_admins
             /\ tasks' = tasks]_vars

\* C29: a create(S) invoked again after an earlier create(S) was interrupted
\* before it wrote the record succeeds, and leaves exactly one record, one
\* schema (on PostgreSQL), at most one DNS record and at most one seeded admin
C29_RetryAfterInterruptionSucceeds ==
    [][\A s \in Subdomains :
          (\E ssl \in SslOutcomes, seed \in SeedOutcomes : CreateReturns(s, ssl, seed))
          => /\ CreateSucceeded(s)
             /\ Cardinality(BySubdomain(client_sites', s)) = 1
             /\ Cardinality(client_sites') = 1
             /\ ~is_sqlite => (schemas' = {s} /\ seeded_admins' = {s})
             /\ is_sqlite => (schemas' = {} /\ seeded_admins' = {})
             /\ Cardinality(dns_records'[s]) <= 1
             /\ cloudflare_configured => (dns_records'[s] # {} => dns_records'[s] = {LIGHTSAIL_IP})]_vars

\* the second create of acme succeeded on PostgreSQL after the first one, which
\* had drawn id 1, created the schema and the DNS record and seeded the admin,
\* was interrupted
C29_Witness ==
    /\ ~is_sqlite /\ cloudflare_configured
    /\ resp.op = "create" /\ resp.code = 200
    /\ \E r \in client_sites : r.subdomain = "acme" /\ r.id = Uuid(2)
    /\ Cardinality(client_sites) = 1
    /\ schemas = {"acme"} /\ seeded_admins = {"acme"}
    /\ dns_records["acme"] = {LIGHTSAIL_IP}

\* the invocation of create_client_site for s run by coroutine t returns
CreateInvocationReturns(t, s) ==
    \/ tasks[t].pc \in CreatePcs /\ tasks[t].sub = s /\ tasks'[t].pc = "idle"
    \/ /\ tasks[t].pc = "idle" /\ tasks'[t].pc = "idle"
       /\ \/ create_client_site_query_fails(t, s)
          \/ \E n \in Names, st \in SettingsInputs, schema_ok \in SchemaOutcomes :
                create_client_site(t, s, n, st, schema_ok, "issued", "seeded")

\* C36: a create invocation has completed its tracking when it returns, on every
\* path: while no create for a subdomain is running the tracker holds no in-flight
\* entry for it, and the return of an invocation adds one record of the
\* subdomain to the history whose success flag is the outcome of the invocation
C36_CreateCompletesTracking ==
    /\ [](\A s \in RequestedSubdomains :
             (\A t \in Tasks : ~(tasks[t].pc \in CreatePcs /\ tasks[t].sub = s))
             => s \notin DOMAIN active_provisioning)
    /\ [][\A t \in Tasks, s \in Subdomains :
             CreateInvocationReturns(t, s)
             => /\ Len(completed_provisioning') = Len(completed_provisioning) + 1
                /\ Newest(completed_provisioning').client_site_id = s
                /\ Newest(completed_provisioning').success = (resp'.code = 200)]_vars

-----------------------------------------------------------------------------
(* Properties of delete_client_site *)

\* the step in which the delete_client_site call of coroutine t for s returns,
\* where the last Cloudflare call it made (if any) answered api_ok and the
\* schema drop answered drop_ok
DeleteReturns(t, s, api_ok, drop_ok) ==
    \E applied \in CommitOutcomes :
        \/ /\ tasks[t].sub = s /\ tasks'[t].pc = "idle"
           /\ \E c \in DnsContents \cup {NoId} : delete_dns_get(t, api_ok, c, drop_ok, applied)
        \/ tasks[t].sub = s /\ delete_dns_delete(t, api_ok, drop_ok, applied)
        \/ /\ BySubdomain(client_sites, s) # {}
           /\ tasks'[t].pc = "idle"
           /\ delete_client_site(t, s, drop_ok, applied)

\* the schema of s was dropped and its record, events and log rows deleted
DeleteCarriedOut(s) ==
    /\ s \notin schemas'
    /\ BySubdomain(client_sites', s) = {}
    /\ \A i \in DOMAIN provisioning_log' : provisioning_log'[i].subdomain # s

\* C19: during delete(S) a failed DNS lookup or DNS deletion, and the failing
\* certificate revocation, do not stop the operation: the schema drop is still
\* attempted and, when it succeeds, the record is deleted
C19_CleanupFailuresDoNotStopDelete ==
    [][\A t \in Tasks, s \in Subdomains, drop_ok \in SchemaOutcomes :
          (cloudflare_configured /\ dns_records[s] # {} /\ DeleteReturns(t, s, FALSE, drop_ok))
          => IF is_sqlite \/ drop_ok
             THEN DeleteCarriedOut(s)
             ELSE resp' = Failure("delete", s, 500, "schema")]_vars

\* acme was deleted although its DNS record could not be removed
C19_Witness ==
    /\ resp.op = "delete" /\ resp.code = 200 /\ resp.sub = "acme"
    /\ cloudflare_configured /\ cert_manager_configured
    /\ dns_records["acme"] = {LIGHTSAIL_IP}
    /\ "acme" \notin schemas
    /\ BySubdomain(client_sites, "acme") = {}

\* C20: delete(S) on an existing tenant reports failure exactly when the
\* schema drop fails; failed DNS cleanup and failed certificate revocation
\* alone still give a successful delete
C20_DeleteFailsOnlyOnSchemaDrop ==
    [][\A t \in Tasks, s \in Subdomains, api_ok \in ApiOutcomes, drop_ok \in SchemaOutcomes :
          DeleteReturns(t, s, api_ok, drop_ok)
          => /\ resp'.op = "delete"
             /\ resp'.code # 200 <=> (~is_sqlite /\ ~drop_ok)
             /\ resp'.code = 200 => DeleteCarriedOut(s)]_vars

\* a delete of acme that failed on the schema drop: record and schema remain
C20_Witness ==
    /\ resp = Failure("delete", "acme", 500, "schema")
    /\ "acme" \in schemas
    /\ BySubdomain(client_sites, "acme") # {}
    /\ tasks["t1"].pc = "idle"

\* the id of the client site that the delete call of coroutine t for s found
DeletedId(t, s) ==
    IF tasks[t].pc = "idle" THEN First(BySubdomain(client_sites, s)).id ELSE tasks[t].id

\* C21: after a successful delete(S) no record with subdomain S and no log or
\* event row of that client site remains, and a record is removed only in a
\* delete whose schema drop has succeeded
C21_DeleteRemovesRecordAfterSchemaDrop ==
    [][\A s \in Subdomains :
          /\ \A t \in Tasks, api_ok \in ApiOutcomes, drop_ok \in SchemaOutcomes :
                (DeleteReturns(t, s, api_ok, drop_ok) /\ resp'.code = 200)
                => /\ BySubdomain(client_sites', s) = {}
                   /\ \A i \in DOMAIN provisioning_log' :
                          provisioning_log'[i].client_site_id # DeletedId(t, s)
                   /\ \A i \in DOMAIN client_site_events' :
                          client_site_events'[i].client_site_id # DeletedId(t, s)
          /\ (BySubdomain(client_sites, s) # {} /\ BySubdomain(client_sites', s) = {})
                => /\ s \notin schemas'
                   /\ \E t \in Tasks, api_ok \in ApiOutcomes :
                          DeleteReturns(t, s, api_ok, TRUE) \/ (is_sqlite /\ DeleteReturns(t, s, api_ok, FALSE))]_vars

\* acme was provisioned on PostgreSQL and deleted: nothing of it is left
C21_Witness ==
    /\ resp.op = "delete" /\ resp.code = 200 /\ resp.sub = "acme"
    /\ ~is_sqlite /\ next_uuid = 1
    /\ Len(completed_provisioning) = 1 /\ completed_provisioning[1].success
    /\ client_sites = {} /\ provisioning_log = <<>> /\ client_site_events = <<>>
    /\ "acme" \notin schemas

-----------------------------------------------------------------------------
(* Properties of the registry endpoints *)

\* the handlers of PUT /client-sites/{subdomain}/suspend and .../activate with
\* the action they log and the status they set
StatusActions == {<<"suspend", "suspended", FALSE>>, <<"activate", "active", TRUE>>}

\* C22: a successful suspend(S) or activate(S) adds exactly one log entry for
\* the client site, with the matching action and status completed, and touches
\* no schema, DNS record, certificate or admin seed; on an unknown subdomain it
\* fails with NotFound (404) and adds no log entry
C22_StatusChangeLogsOnce ==
    [][\A s \in Subdomains, a \in StatusActions :
          set_status(s, a[1], a[2], a[3])
          => /\ UNCHANGED <<schemas, dns_records, seeded_admins, tasks, trackerVars>>
             /\ IF BySubdomain(client_sites, s) = {}
                THEN /\ resp' = Failure(a[1], s, 404, "not_found")
                     /\ provisioning_log' = provisioning_log
                     /\ client_sites' = client_sites
                ELSE /\ resp'.code = 200
                     /\ Len(provisioning_log') = Len(provisioning_log) + 1
                     /\ SubSeq(provisioning_log', 1, Len(provisioning_log)) = provisioning_log
                     /\ NewLogRow.client_site_id = First(BySubdomain(client_sites, s)).id
                     /\ NewLogRow.subdomain = s
                     /\ NewLogRow.action = a[1]
                     /\ NewLogRow.status = "completed"]_vars

\* acme was suspended and activated again, beta is unknown and was refused
C22_Witness ==
    /\ Len(provisioning_log) = 2
    /\ provisioning_log[1].action = "suspend" /\ provisioning_log[1].status = "completed"
    /\ provisioning_log[2].action = "activate" /\ provisioning_log[2].status = "completed"
    /\ resp = Failure("suspend", "beta", 404, "not_found")

\* C23: heartbeat(S, api_url) creates exactly one minimal record when S is
\* unseen and none when S is registered, and in both cases the last_seen of
\* the record of S is afterwards the time of that heartbeat
C23_HeartbeatRegistersLazily ==
    [][\A s \in Subdomains :
          update_heartbeat(s)
          => /\ IF BySubdomain(client_sites, s) = {}
                THEN /\ Cardinality(client_sites') = Cardinality(client_sites) + 1
                     /\ client_sites \subseteq client_sites'
                     /\ \A r \in client_sites' \ client_sites :
                            /\ r.subdomain = s /\ r.name = Title(s)
                            /\ ~r.is_active /\ r.settings = "empty"
                ELSE /\ Cardinality(client_sites') = Cardinality(client_sites)
                     /\ {r.id : r \in client_sites'} = {r.id : r \in client_sites}
                     /\ \A r \in client_sites' \ client_sites :
                            r = [First(BySubdomain(client_sites, s)) EXCEPT !.last_seen = clock]
             /\ Cardinality(BySubdomain(client_sites', s)) = 1
             /\ \A r \in BySubdomain(client_sites', s) : r.last_seen = clock
             /\ resp'.code = 200 /\ resp'.last_seen = clock]_vars

\* a heartbeat at second 110 for acme, which POST /client-sites had registered
C23_Witness ==
    /\ clock = 110
    /\ resp.op = "heartbeat" /\ resp.last_seen = 110
    /\ \E r \in client_sites :
          r.subdomain = "acme" /\ r.name = "Acme Corp" /\ r.last_seen = 110
    /\ Cardinality(client_sites) = 1

\* C24: status(S) answers alive = TRUE exactly when the record of S has a
\* last_seen and fewer than 300 seconds have passed since it (10 s: alive,
\* 300 s and 400 s: not alive, never seen: not alive)
C24_AliveWithinFiveMinutes ==
    [][\A s \in Subdomains :
          (get_tenant_status_endpoint(s) /\ BySubdomain(client_sites, s) # {})
          => /\ resp'.code = 200
             /\ resp' = crud_get_client_site_status(client_sites, s, utcnow)
             /\ resp'.alive = is_alive(First(BySubdomain(client_sites, s)).last_seen, clock)]_vars

\* the log row that the most recent operation on the client site wrote
LastLogged(log, id) == log[CHOOSE i \in LogsOf(log, id) : \A j \in LogsOf(log, id) : j <= i]

\* C25: whenever S exists after a sequence of create, suspend, activate and
\* delete calls, getStatus(S) reports as latest_provisioning_log the entry of
\* the operation invoked last on S; right after a successful create that is
\* action create, status completed, on a record that is active
C25_StatusReportsLatestOperation ==
    [][\A s \in Subdomains :
          /\ (get_client_site_status(s) /\ BySubdomain(client_sites, s) # {})
              => LET id == First(BySubdomain(client_sites, s)).id IN
                 /\ resp'.code = 200
                 /\ LogsOf(provisioning_log, id) # {}
                    => /\ resp'.latest_action = LastLogged(provisioning_log, id).action
                       /\ resp'.latest_status = LastLogged(provisioning_log, id).status
          /\ (\E ssl \in CertificateResults, seed \in SeedResults :
                 CreateReturns(s, ssl, seed) /\ resp'.code = 200)
              => \A r \in BySubdomain(client_sites', s) :
                    /\ r.status = "active" /\ r.is_active
                    /\ LogsOf(provisioning_log', r.id) # {}
                    /\ LastLogged(provisioning_log', r.id).action = "create"
                    /\ LastLogged(provisioning_log', r.id).status = "completed"]_vars

\* C30: heartbeat, activation and deactivation by id, getStatus and the
\* resolution of a request by the child service leave the status of every
\* existing record and the provisioning log as they were; only the
\* orchestrator's operations change them
C30_OnlyOrchestratorChangesStatusAndLog ==
    [][(\/ \E s \in Subdomains : update_heartbeat(s)
        \/ ActivateById
        \/ \E s \in Subdomains : get_client_site_status(s)
        \/ serve)
       => /\ provisioning_log' = provisioning_log
          /\ \A r \in client_sites :
                \E q \in client_sites' : q.id = r.id /\ q.status = r.status]_vars

\* acme was suspended by the orchestrator, which logged it, then activated by
\* id and asked for by a request of the child service, and is still suspended
\* with the one log row
C30_Witness ==
    /\ Len(provisioning_log) = 1 /\ provisioning_log[1].action = "suspend"
    /\ \E r \in client_sites :
          r.subdomain = "acme" /\ r.status = "suspended" /\ r.is_active
    /\ resp.op \in {"request", "login"}

\* C35: in every reachable state of the registry, is_active holds for a record
\* exactly when its status is active
C35_ActiveFlagMatchesStatus ==
    \A r \in client_sites : r.is_active <=> r.status = "active"

\* C38: with the bypass off, validate_data_access(request, client_site_id)
\* answers true only for a request whose client-site context carries an id
\* equal to client_site_id; without a context, with a context that has no id
\* or with another id it answers false
C38_DataAccessNeedsMatchingId ==
    [][\A n \in 1..MaxIds :
          (validate_data_access(Uuid(n)) /\ ~bypass_validation)
          => (resp'.result <=>
                 /\ ~request.state.client_site.is_none
                 /\ "id" \in DOMAIN request.state.client_site.items
                 /\ request.state.client_site.items["id"] = Uuid(n))]_vars

\* accepted calls of the pair inside the window that ends now
AcceptedInWindow(client_ip, tenant_id) ==
    Cardinality({i \in 1..Len(accepted) :
                    /\ accepted[i].client_ip = client_ip
                    /\ accepted[i].tenant_id = tenant_id
                    /\ accepted[i].timestamp > clock - rate_limit_window})

\* C39: check_rate_limit answers false once max_requests_per_window calls of
\* the same pair of address and tenant were accepted inside the current
\* window, and answers true before that whatever the calls of other pairs
C39_RateLimitPerPair ==
    [][\A pair \in LimiterPairs :
          check_rate_limit(pair[1], pair[2])
          => (resp'.result <=>
                 AcceptedInWindow(pair[1], pair[2]) < max_requests_per_window)]_vars

-----------------------------------------------------------------------------
(* Properties of ensure_dns_record *)

\* the events of ensure_trace about subdomain s, in order
EventsOf(s) == SelectSeq(ensure_trace, LAMBDA e : e.sub = s)

\* C17: ensure_dns_record(S, ip) called twice in sequence with the same ip,
\* starting from no record for S and with the provider answering, performs one
\* remote create and then neither a create nor an update; afterwards S has
\* one record and both calls returned the same record
C17_EnsureTwiceCreatesOnce ==
    \A s \in Subdomains :
        LET tr == EventsOf(s) IN
        \A i \in 1..Len(tr) :
            (/\ i + 3 <= Len(tr)
             /\ tr[i] = DnsEvent("get", s, TRUE, NoId)
             /\ tr[i + 1] = DnsEvent("create", s, TRUE, LIGHTSAIL_IP)
             /\ tr[i + 3].op = "get" /\ tr[i + 3].ok)
            => /\ tr[i + 2] = Returned(s, LIGHTSAIL_IP)
               /\ tr[i + 3].content = LIGHTSAIL_IP
               /\ i + 4 <= Len(tr)
               /\ tr[i + 4] = tr[i + 2]
               /\ Len(tr) = i + 4 => Cardinality(dns_records[s]) = 1

\* two calls for acme on an empty zone: get, create, return, get, return
C17_Witness ==
    /\ ensure_trace = <<DnsEvent("get", "acme", TRUE, NoId),
                        DnsEvent("create", "acme", TRUE, LIGHTSAIL_IP),
                        Returned("acme", LIGHTSAIL_IP),
                        DnsEvent("get", "acme", TRUE, LIGHTSAIL_IP),
                        Returned("acme", LIGHTSAIL_IP)>>
    /\ dns_records["acme"] = {LIGHTSAIL_IP}
    /\ tasks["t1"].pc = "idle"

\* the value the call that just returned handed to its caller
LastReturned == ensure_trace'[Len(ensure_trace')]

\* C18: ensure_dns_record(S, ip) that finds a record for S with another address
\* issues one update and no create; when the update succeeds the record holds
\* ip and the number of records of S is unchanged; when it fails the call
\* reports failure and the zone is left as it was
C18_DriftUpdatesInPlace ==
    [][\A t \in Tasks :
          LET s == tasks[t].sub IN
          /\ (\E c \in DnsContents \ {LIGHTSAIL_IP} : ensure_dns_get(t, TRUE, c))
                => /\ tasks'[t].pc = "e_dns_update"
                   /\ dns_records' = dns_records
          /\ \A api_ok \in ApiOutcomes :
                ensure_dns_update(t, api_ok)
                => /\ tasks'[t].pc = "idle"
                   /\ LastReturned = Returned(s, IF api_ok THEN LIGHTSAIL_IP ELSE NoId)
                   /\ api_ok => /\ LIGHTSAIL_IP \in dns_records'[s]
                                /\ tasks[t].record \notin dns_records'[s]
                                /\ Cardinality(dns_records'[s]) = Cardinality(dns_records[s])
                   /\ ~api_ok => dns_records' = dns_records]_vars

\* a call for acme that found a stale record and updated it
C18_Witness ==
    /\ ensure_trace = <<DnsEvent("get", "acme", TRUE, "stale"),
                        DnsEvent("update", "acme", TRUE, "stale"),
                        Returned("acme", LIGHTSAIL_IP)>>
    /\ dns_records["acme"] = {LIGHTSAIL_IP}
    /\ tasks["t1"].pc = "idle"

-----------------------------------------------------------------------------
(* Properties of the tracker *)

\* C31: the in-flight map keeps one entry per id: a start for an id that is
\* already in flight returns without an error and leaves the map, with the
\* entry's start time and step list, and both buffers as they were
C31_DuplicateStartKeepsEntry ==
    [][\A id \in Subdomains :
          (start_provisioning_tracking(id) /\ id \in DOMAIN active_provisioning)
          => /\ active_provisioning'[id].start_time = active_provisioning[id].start_time
             /\ active_provisioning'[id].steps = active_provisioning[id].steps
             /\ UNCHANGED trackerVars
             /\ resp'.error = "none"]_vars

\* a start was the last call, for an id that has been in flight since an
\* earlier start: it has a step and the clock has moved since it started
C31_Witness ==
    /\ resp.op = "start_provisioning"
    /\ resp.sub \in DOMAIN active_provisioning
    /\ active_provisioning[resp.sub].steps # <<>>
    /\ active_provisioning[resp.sub].start_time < clock

\* C32: a completion for an id in flight removes the id from the in-flight map,
\* leaves the other entries alone and appends the removed record, with its
\* start time, its accumulated steps and the given success flag, as the newest
\* element of the history; a completion or a step for an id that is not in
\* flight changes neither the map nor the history
C32_CompleteMovesRecord ==
    [][/\ \A id \in Subdomains, ok \in BOOLEAN :
             complete_provisioning_tracking(id, ok)
             => IF id \in DOMAIN active_provisioning
                THEN /\ DOMAIN active_provisioning' = DOMAIN active_provisioning \ {id}
                     /\ \A k \in DOMAIN active_provisioning' :
                           active_provisioning'[k] = active_provisioning[k]
                     /\ completed_provisioning' # <<>>
                     /\ completed_provisioning' =
                           Append(completed_provisioning, Newest(completed_provisioning'))
                     /\ Newest(completed_provisioning').client_site_id = id
                     /\ Newest(completed_provisioning').start_time =
                           active_provisioning[id].start_time
                     /\ Newest(completed_provisioning').steps = active_provisioning[id].steps
                     /\ Newest(completed_provisioning').success = ok
                ELSE UNCHANGED <<active_provisioning, completed_provisioning>>
       /\ \A id \in Subdomains \ DOMAIN active_provisioning, n \in StepNames :
             record_provisioning_step_tracking(id, n, TRUE)
             => UNCHANGED <<active_provisioning, completed_provisioning>>]_vars

\* a run with a recorded step was completed as failed and is the newest
\* element of the history, behind a run of the other id that succeeded
C32_Witness ==
    /\ resp.op = "complete_provisioning"
    /\ Len(completed_provisioning) = 2
    /\ Newest(completed_provisioning).client_site_id = resp.sub
    /\ Newest(completed_provisioning).steps # <<>>
    /\ ~Newest(completed_provisioning).success
    /\ resp.sub \notin DOMAIN active_provisioning
    /\ completed_provisioning[1].success
    /\ completed_provisioning[1].client_site_id # resp.sub

\* C33: the history never holds more than its capacity of 1000 records and the
\* metrics buffer never more than max_metrics; a completion that finds the
\* history full drops the oldest record and keeps the others in their order,
\* followed by the new one
C33_BuffersBounded ==
    /\ [](/\ Len(completed_provisioning) <= CompletedMaxLen
          /\ Len(metrics) <= max_metrics)
    /\ [][\A ok \in BOOLEAN :
             (/\ complete_provisioning_tracking("acme", ok)
              /\ "acme" \in DOMAIN active_provisioning
              /\ Len(completed_provisioning) = CompletedMaxLen)
             => /\ Len(completed_provisioning') = CompletedMaxLen
                /\ completed_provisioning' =
                      Append(Tail(completed_provisioning), Newest(completed_provisioning'))
                /\ Newest(completed_provisioning').client_site_id = "acme"]_vars

\* the full history holds two runs of acme as its newest records and has lost
\* the oldest record it held at first, a failed run
C33_Witness ==
    /\ Len(completed_provisioning) = CompletedMaxLen
    /\ completed_provisioning[CompletedMaxLen].client_site_id = "acme"
    /\ completed_provisioning[CompletedMaxLen - 1].client_site_id = "acme"
    /\ completed_provisioning[1] = History(2)[2]
    /\ completed_provisioning[CompletedMaxLen - 2] = History(CompletedMaxLen - 1)[CompletedMaxLen - 1]

\* a call of one of the three tracking functions for id
TrackingCall(id) ==
    \/ start_provisioning_tracking(id)
    \/ \E n \in StepNames : record_provisioning_step_tracking(id, n, TRUE)
    \/ \E ok \in BOOLEAN : complete_provisioning_tracking(id, ok)

\* the records of id in a history
RecordsOf(cp, id) == {i \in 1..Len(cp) : cp[i].client_site_id = id}

\* C34: in any interleaving of starts, steps and completions for distinct ids,
\* a call for one id leaves the in-flight entry of every other id, with its
\* steps, as it was, and the completion of a run in flight adds exactly one
\* record of that id to the history and none of another id, a record that no
\* later call removes or repeats
C34_RunsOfDistinctIdsIndependent ==
    [][\A id \in Subdomains :
          TrackingCall(id)
          => /\ \A k \in Subdomains \ {id} :
                   /\ k \in DOMAIN active_provisioning' <=> k \in DOMAIN active_provisioning
                   /\ k \in DOMAIN active_provisioning
                         => active_provisioning'[k] = active_provisioning[k]
                   /\ RecordsOf(completed_provisioning', k) = RecordsOf(completed_provisioning, k)
             /\ \A i \in 1..Len(completed_provisioning) :
                   completed_provisioning'[i] = completed_provisioning[i]
             /\ Len(completed_provisioning') =
                   IF id \in DOMAIN active_provisioning /\ id \notin DOMAIN active_provisioning'
                   THEN Len(completed_provisioning) + 1
                   ELSE Len(completed_provisioning)]_vars

\* two runs overlapped: the run of one id, with a step, was completed after a
\* leap of the clock while the run of the other id, started before the leap and
\* without a step, is still in flight
C34_Witness ==
    /\ Len(completed_provisioning) = 1
    /\ completed_provisioning[1].steps # <<>>
    /\ completed_provisioning[1].duration_seconds > 0
    /\ \E k \in DOMAIN active_provisioning :
          /\ k # completed_provisioning[1].client_site_id
          /\ active_provisioning[k].steps = <<>>
          /\ active_provisioning[k].start_time < completed_provisioning[1].end_time

-----------------------------------------------------------------------------
(* Properties of the child service *)

\* a GET request sent to the child service, answered in this step
Requested(req) ==
    /\ req.method = "GET"
    /\ \E answer \in parent_validate_answers(client_sites, resolved_subdomain(req)) :
          child_request(req, answer) /\ dispatch(req, answer).passed

\* the bearer token of req is validly signed and not expired
ValidToken(req) ==
    req.authorization.bearer /\ req.authorization.signed /\ ~req.authorization.expired

\* the first non-empty of the three sources of the tenant context
FirstNonEmpty(host_subdomain, header, query) ==
    IF host_subdomain # "" THEN host_subdomain ELSE IF header # "" THEN header ELSE query

\* C26: the tenant context is the first non-empty of the Host-header subdomain,
\* the X-Client-Site-ID header and the subdomain query parameter; a request in
\* which all three are empty and to which no bypass applies is answered 400
\* and reaches no handler
C26_ResolverOrderAndRejection ==
    [][serve
       => LET expected == FirstNonEmpty(get_subdomain_from_host(request.host),
                                        request.x_client_site_id, request.query_subdomain)
          IN  /\ resp'.sub = expected
              /\ (expected = "" /\ ~bypass_validation /\ ~request.x_internal_service)
                 => /\ ~resp'.handler
                    /\ request.method # "OPTIONS" => resp'.code = 400]_vars

\* without bypass, a request with no tenant in Host, header or query was refused
C26_Witness ==
    /\ ~bypass_validation
    /\ resp.op \in {"request", "login"} /\ resp.sub = ""
    /\ resp.code = 400 /\ ~resp.handler

\* the Host headers of the requests, as labels, and the root domain of the deployment
HostLabels ==
    {<<>>, <<"localhost">>, <<"example", "com">>, <<"acme", "example", "com">>,
     <<"beta", "example", "com">>}
RootDomain == <<"example", "com">>

\* C27: Host-header extraction drops the port and answers the first label only
\* for a host of more than one label that is not the bare root domain; for the
\* root domain (example.com, with or without a port) or a single label it
\* answers no subdomain
C27_HostSubdomainSkipsRootDomain ==
    [][\A labels \in HostLabels, port \in BOOLEAN :
          (/\ serve
           /\ request.host = Host(labels, port)
           /\ request.x_client_site_id = "" /\ request.query_subdomain = "")
          => resp'.sub = IF Len(labels) > 1 /\ labels # RootDomain THEN labels[1] ELSE ""]_vars

\* C37: with the bypass off, a request whose X-Client-Site-ID header names
\* another subdomain than the one derived from its Host header is answered 400
\* and reaches no handler
C37_HeaderTamperingRejected ==
    [][(/\ serve
        /\ request.method # "OPTIONS"
        /\ ~bypass_validation /\ ~request.x_internal_service
        /\ request.x_client_site_id # ""
        /\ get_subdomain_from_host(request.host) \in Subdomains
        /\ request.x_client_site_id # get_subdomain_from_host(request.host))
       => resp'.code = 400 /\ ~resp'.handler]_vars

\* C28: a credential minted by login for a request resolved to a registered
\* tenant carries that tenant's id as client_id, not the subdomain nor a value
\* the caller sent, with and without bypass
C28_LoginBindsTenantId ==
    [][(/\ resp'.op = "login" /\ resp'.handler
        /\ <<resp, issued_tokens>>' # <<resp, issued_tokens>>
        /\ BySubdomain(client_sites, resp'.sub) # {})
       => \A r \in BySubdomain(client_sites, resp'.sub) :
             /\ resp'.client_id = r.id
             /\ create_access_token("user", r.id) \in issued_tokens'
             /\ issued_tokens' \ issued_tokens \subseteq {create_access_token("user", r.id)}]_vars

\* C3: a valid credential minted with client_id = A, presented on a request
\* that resolves to a tenant B # A, is rejected with 401 or 403 and yields no
\* auth context
C3_CrossTenantCredentialRejected ==
    [][\A req \in Requests(issued_tokens) :
          (/\ Requested(req)
           /\ ValidToken(req)
           /\ req.authorization.client_id \in Subdomains \ {resolved_subdomain(req)})
          => resp'.code \in {401, 403} /\ ~resp'.handler]_vars

\* C4: a validly signed credential without a client_id claim is rejected with
\* 401 or 403 and yields no auth context
C4_MissingClientIdRejected ==
    [][\A req \in Requests(issued_tokens) :
          (Requested(req) /\ ValidToken(req) /\ req.authorization.client_id = NoId)
          => resp'.code \in {401, 403} /\ ~resp'.handler]_vars

\* C5: with the bypass off, a request that resolves to a subdomain without a
\* record is answered 404, one that resolves to a record whose status is not
\* active is answered 403, and neither reaches the handler
C5_ResolverRejectsUnknownAndInactive ==
    [][\A req \in Requests(issued_tokens) :
          (/\ ~bypass_validation /\ ~req.x_internal_service
           /\ req.method = "GET"
           /\ resolved_subdomain(req) # ""
           /\ validate_request_security(req)
           /\ validate_header_consistency(req, resolved_subdomain(req))
           /\ validate_subdomain_format(resolved_subdomain(req))
           /\ \E answer \in parent_validate_answers(client_sites, resolved_subdomain(req)) :
                 child_request(req, answer))
          => LET found == BySubdomain(client_sites, resolved_subdomain(req)) IN
             /\ found = {} => resp'.code = 404 /\ ~resp'.handler
             /\ (found # {} /\ First(found).status # "active")
                   => resp'.code = 403 /\ ~resp'.handler]_vars

====
